---- MODULE Spec2Model ----
(***************************************************************************)
(* Gesture-driven virtual interaction layer of the photobooth front end:   *)
(*   - VirtualInteractionHandler (public/js/virtual-interaction.js):       *)
(*     registry of virtual buttons, hover / hold / press state machine and *)
(*     the 200 ms auto-release timeouts;                                   *)
(*   - VRPhotoboothApp.checkPeaceSignGesture: the hold-a-peace-sign timer; *)
(*   - MediaPipeHandler.processFrame: the frame driver feeding both;       *)
(*   - MediaPipeHandler.recognizeGesture: the finger-pattern classifier;   *)
(*   - VRPhotoboothApp.getVideoScale and the detection overlay drawn from  *)
(*     it (drawHandLandmarks, drawFaceLandmarks, drawHandConnections).     *)
(* Time is Date.now() in milliseconds.  Coordinates are normalized         *)
(* detector / screen coordinates in units of 1/1000.                       *)
(***************************************************************************)
EXTENDS Integers, Sequences, FiniteSets, TLC

VARIABLES
    now,                    \* Date.now()
    virtualButtons,         \* this.virtualButtons: the Map, as the sequence of
                            \* button objects in insertion order
    buttons,                \* the button objects, by identity (heap slot)
    handPositions,          \* this.handPositions
    timers,                 \* pending setTimeout callbacks, in creation order
    elementRect,            \* DOM: getBoundingClientRect() of each element
    peaceSignStartTime,     \* VRPhotoboothApp.peaceSignStartTime
    isCapturingFromGesture, \* VRPhotoboothApp.isCapturingFromGesture
    isProcessing,           \* MediaPipeHandler.isProcessing
    animationId,            \* VRPhotoboothApp.animationId: the scheduled
                            \* run of the main loop, if any
    sessions,               \* server: session.authenticated per session
    captureManager,         \* PhotoCaptureManager: its fields and the
                            \* capturePhoto calls that are awaiting
    lifecycle,              \* VRPhotoboothApp: isRunning, isInitialized and
                            \* the runs of the main loop, scheduled or awaiting
    events,                 \* callbacks invoked by the last step, in order
    lastFrame,              \* the hand frame the last step delivered, if any
    hist,                   \* history per button object (observation only)
    gestureHist,            \* history of the gesture timer (observation only)
    input,                  \* arguments of a call of a pure function, or
                            \* the HTTP request the server handles
    output                  \* what that call returned or drew, or the
                            \* response the server sent

vars == <<now, virtualButtons, buttons, handPositions, timers, elementRect,
          peaceSignStartTime, isCapturingFromGesture, isProcessing,
          animationId, sessions, captureManager, lifecycle, events,
          lastFrame, hist, gestureHist,
          input, output>>

----------------------------------------------------------------------------
(* Bounds of the model                                                     *)

Epoch == 1000            \* value of Date.now() at construction
VITickMs == 100          \* clock step between frames, interaction model
MaxTimeVI == 300         \* time horizon of the interaction model
GestureTickMs == 500     \* clock step between frames, gesture timer model
MaxTimeGesture == 9000   \* time horizon of the gesture timer model
AppTickMs == 500         \* clock step between frames, end-to-end model
MaxTimeApp == 4000       \* time horizon of the end-to-end model
FrameTickMs == 800       \* clock step between frames, re-entrant model
MaxTimeFrames == 2500    \* time horizon of the re-entrant model
TargetsTickMs == 200     \* clock step between frames, two-target model
MaxTimeTargets == 200    \* time horizon of the two-target model
MaxCalls == 1            \* registerButton and unregisterButton calls made
MaxClients == 2          \* browsers (session cookies) talking to the server
MaxCaptures == 3         \* capturePhoto calls that get past the guard
MaxFrameRequests == 4    \* requestAnimationFrame calls of the main loop
LoopTickMs == 800        \* clock step between frames, main loop model
MaxTimeLoop == 800       \* time horizon of the main loop model
MaxObjects == 1          \* button objects alive at the same time
MaxTargets == 3          \* button objects of the models with two targets
MaxTimers == 2           \* pending timeouts
MaxLandmarks == 22       \* longest landmark list given to recognizeGesture
MaxPoints == 2           \* longest landmark list given to the overlay

Null == 0 - 1            \* null / undefined timestamp or index

----------------------------------------------------------------------------
(* Program constants                                                       *)

interactionThreshold == 50     \* 0.05
holdTime == 1000
ReleaseDelayMs == 200
peaceSignDuration == 3000
CooldownDelayMs == 2000
RequiredLandmarks == 21
CaptureHoldTime == 1500

----------------------------------------------------------------------------
(* Inputs                                                                  *)

ButtonIds == {"capture"}

Window == [innerWidth |-> 1000, innerHeight |-> 1000]

\* rectangles an element can occupy (screen pixels)
RectA == [left |-> 450, top |-> 450, width |-> 100, height |-> 100]
RectB == [left |-> 850, top |-> 50, width |-> 100, height |-> 100]
Rects == {RectA, RectB}

\* finger flags <<thumb, index, middle, ring, pinky>>: tip.y < pip.y
UpPeace == <<FALSE, TRUE, TRUE, FALSE, FALSE>>
UpFist  == <<FALSE, FALSE, FALSE, FALSE, FALSE>>
UpPoint == <<FALSE, TRUE, FALSE, FALSE, FALSE>>

\* detector output for one hand: n landmarks, landmark 8 at tip; tipY and
\* pipY are the y of the five fingertips (landmarks 4, 8, 12, 16, 20) and of
\* the joints they are compared with (landmarks 3, 6, 10, 14, 18)
Hand(n, tip, up) ==
    LET tipY == [f \in 1..5 |-> IF f = 2 THEN tip.y ELSE 500]
    IN  [n |-> n, tip |-> tip, tipY |-> tipY,
         pipY |-> [f \in 1..5 |-> IF up[f] THEN tipY[f] + 10 ELSE tipY[f] - 10]]

RawNearPeace == Hand(21, [x |-> 520, y |-> 500], UpPeace)
RawEdgePoint == Hand(21, [x |-> 530, y |-> 540], UpPoint)
RawFarFist   == Hand(21, [x |-> 100, y |-> 100], UpFist)
RawShort     == Hand(20, [x |-> 500, y |-> 500], UpPeace)
RawHands == {RawNearPeace, RawEdgePoint, RawFarFist, RawShort}

RawOverB     == Hand(21, [x |-> 900, y |-> 100], UpFist)
RawNearPoint == Hand(21, [x |-> 510, y |-> 500], UpPoint)

MaxHands == 2   \* numHands of the hand landmarker

\* ids and registration options of the targets of the models with two
\* targets; both elements have their own rectangle
TargetIds == {"capture", "gallery"}

TargetOptions ==
    [id \in TargetIds |->
        IF id = "capture"
        THEN [threshold |-> Null, holdTime |-> CaptureHoldTime,
              requireHold |-> "true"]
        ELSE [threshold |-> Null, holdTime |-> Null, requireHold |-> "false"]]

\* the options a caller of the handler alone registers them with
HandlerOptions ==
    [id \in TargetIds |->
        IF id = "capture"
        THEN [threshold |-> Null, holdTime |-> 200, requireHold |-> "absent"]
        ELSE [threshold |-> Null, holdTime |-> Null, requireHold |-> "false"]]

\* an id no registerButton call was made with
UnknownId == "settings"

TargetRects == [id \in TargetIds |-> IF id = "capture" THEN RectA ELSE RectB]

\* detector outputs behind the hand lists given to the two-target model
TargetFrames == {<<>>, <<RawNearPeace, RawNearPoint>>,
                 <<RawOverB, RawNearPeace>>}

\* detector outputs given to the main loop model
LoopFrames == {<<>>, <<RawNearPeace>>, <<RawOverB, RawNearPeace>>}

\* what throws during one run of the main loop: nothing, a callback of
\* the interaction handler, the error callback as well, the hand detector,
\* the scene manager, or the drawing of the overlay
LoopFaults == {{}, {"hover:enter"}, {"press", "onError"}, {"handLandmarker"},
               {"updateFromDetection"}, {"overlay"}}

\* landmark lists given to recognizeGesture: no list (Null), an empty one,
\* and lists of 20 .. MaxLandmarks landmarks; every fingertip is above,
\* level with or below its joint
LandmarkCounts == {Null, 0} \cup ((RequiredLandmarks - 1)..MaxLandmarks)

LandmarkYs == {490, 500, 510}

LandmarkLists ==
    {[n |-> n, tip |-> [x |-> 500, y |-> ty[2]], tipY |-> ty,
      pipY |-> [f \in 1..5 |-> 500]] :
        n \in LandmarkCounts, ty \in [1..5 -> LandmarkYs]}

RawFrames == {<<>>, <<RawNearPeace>>, <<RawFarFist>>, <<RawShort>>,
              <<RawEdgePoint, RawNearPeace>>}

\* what a 'detection-results' listener does while processFrame runs:
\* nothing, or one call of processFrame on the next detector output
Reentries == {<<>>, << <<RawNearPeace>> >>}

\* options objects passed to registerButton (Null: key absent)
RegOptions ==
    { [threshold |-> Null, holdTime |-> 200,  requireHold |-> "absent"],
      [threshold |-> Null, holdTime |-> Null, requireHold |-> "false"] }

NoHand == [handIndex |-> Null, position |-> [x |-> Null, y |-> Null],
           gesture |-> "none"]

\* no pure function is being called
NoCall == "-"

\* the session store of a server that has not served a request
NoSessions == <<>>

\* the <video> element: intrinsic size (0 before the metadata is loaded)
\* and width / height attributes (0: not set); NoVideo: no element
Video(vw, vh) == [videoWidth |-> vw, videoHeight |-> vh,
                  width |-> 0, height |-> 0]

NoVideo == Video(Null, Null)

VideoElements == {Video(1280, 720), Video(720, 1280), Video(800, 800),
                  Video(804, 800), Video(0, 0), NoVideo}

\* the detection canvas
Canvases == {[width |-> 800, height |-> 800], [width |-> 1280, height |-> 720]}

\* detector-space landmark positions
OverlayPoints == {[x |-> 50, y |-> 500], [x |-> 500, y |-> 500],
                  [x |-> 300, y |-> 200], [x |-> 500, y |-> 50]}

LandmarkSeqs ==
    UNION {[1..n -> OverlayPoints] : n \in 0..MaxPoints}

\* one detected hand or face to draw: its landmarks and, for a hand, the
\* gesture processHandResults attached
OverlayInputs ==
    {[video |-> v, canvas |-> c, landmarks |-> l, gesture |-> g] :
        v \in VideoElements, c \in Canvases, l \in LandmarkSeqs,
        g \in {"peace", "unknown"}}

Zero == [num |-> 0, den |-> 1]
One  == [num |-> 1, den |-> 1]

----------------------------------------------------------------------------
(* MediaPipeHandler: gesture classification and per-frame hand results     *)

\* !landmarks || landmarks.length !== 21 (n = Null: no list at all)
WrongLength_tooFew(landmarks) ==
    landmarks.n = Null \/ landmarks.n < RequiredLandmarks

WrongLength(landmarks) ==
    landmarks.n = Null \/ landmarks.n # RequiredLandmarks

\* tip.y < pip.y
FingerUp_orLevel(tipY, pipY) == tipY <= pipY

FingerUp(tipY, pipY) == tipY < pipY

\* the if / else-if chain over the five flags
GestureRules_thumbsFirst(thumbUp, indexUp, middleUp, ringUp, pinkyUp) ==
    IF thumbUp /\ indexUp /\ ~middleUp /\ ~ringUp /\ ~pinkyUp
    THEN "thumbs_up"
    ELSE IF indexUp /\ ~middleUp /\ ~ringUp /\ ~pinkyUp THEN "point"
    ELSE IF indexUp /\ middleUp /\ ~ringUp /\ ~pinkyUp THEN "peace"
    ELSE IF indexUp /\ middleUp /\ ringUp /\ pinkyUp /\ thumbUp THEN "open"
    ELSE IF ~indexUp /\ ~middleUp /\ ~ringUp /\ ~pinkyUp /\ ~thumbUp
         THEN "fist"
    ELSE "unknown"

GestureRules(thumbUp, indexUp, middleUp, ringUp, pinkyUp) ==
    IF indexUp /\ ~middleUp /\ ~ringUp /\ ~pinkyUp THEN "point"
    ELSE IF indexUp /\ middleUp /\ ~ringUp /\ ~pinkyUp THEN "peace"
    ELSE IF indexUp /\ middleUp /\ ringUp /\ pinkyUp /\ thumbUp THEN "open"
    ELSE IF ~indexUp /\ ~middleUp /\ ~ringUp /\ ~pinkyUp /\ ~thumbUp
         THEN "fist"
    ELSE IF thumbUp /\ indexUp /\ ~middleUp /\ ~ringUp /\ ~pinkyUp
         THEN "thumbs_up"
    ELSE "unknown"

\* reading .y of a landmark the list does not have (no list, or an index
\* of 20 in a list of fewer than 21) throws a TypeError
recognizeGesture(landmarks) ==
    IF WrongLength(landmarks) THEN "unknown"
    ELSE IF landmarks.n = Null \/ landmarks.n < RequiredLandmarks
         THEN "TypeError"
    ELSE GestureRules(FingerUp(landmarks.tipY[1], landmarks.pipY[1]),
                      FingerUp(landmarks.tipY[2], landmarks.pipY[2]),
                      FingerUp(landmarks.tipY[3], landmarks.pipY[3]),
                      FingerUp(landmarks.tipY[4], landmarks.pipY[4]),
                      FingerUp(landmarks.tipY[5], landmarks.pipY[5]))

\* min / max of the landmark coordinates; null for an empty list
calculateBoundingBox(landmarks) ==
    IF Len(landmarks) = 0 THEN [isNull |-> TRUE, x |-> 0, y |-> 0,
                                 width |-> 0, height |-> 0]
    ELSE LET Min(S) == CHOOSE m \in S : \A k \in S : m <= k
             Max(S) == CHOOSE m \in S : \A k \in S : m >= k
             minX == Min({1000} \cup {landmarks[i].x : i \in 1..Len(landmarks)})
             minY == Min({1000} \cup {landmarks[i].y : i \in 1..Len(landmarks)})
             maxX == Max({0} \cup {landmarks[i].x : i \in 1..Len(landmarks)})
             maxY == Max({0} \cup {landmarks[i].y : i \in 1..Len(landmarks)})
         IN  [isNull |-> FALSE, x |-> minX, y |-> minY,
              width |-> maxX - minX, height |-> maxY - minY]

\* null when the detector reports no hand, otherwise one enriched
\* observation per detected hand
processHandResults(results) ==
    IF Len(results) = 0
    THEN [isNull |-> TRUE, hands |-> <<>>]
    ELSE [isNull |-> FALSE,
          hands |-> [i \in 1..Len(results) |->
                        [n |-> results[i].n, tip |-> results[i].tip,
                         gesture |-> recognizeGesture(results[i])]]]

\* hand lists a caller can pass to updateHandPositions / checkPeaceSignGesture
HandFrames == {processHandResults(r).hands : r \in RawFrames}

\* the argument of updateHandPositions: a hand list, or null / undefined
HandList(hands) == [isNull |-> FALSE, hands |-> hands]

NoHandList == [isNull |-> TRUE, hands |-> <<>>]

HandLists == {HandList(hands) : hands \in HandFrames} \cup {NoHandList}

TargetHandLists == {HandList(processHandResults(r).hands) : r \in TargetFrames}

----------------------------------------------------------------------------
(* VRPhotoboothApp: detection overlay.  Numbers are exact fractions        *)
(* [num, den] in lowest terms with den > 0; the rounding of the doubles    *)
(* the program computes with is not modelled.                              *)

Abs(x) == IF x < 0 THEN 0 - x ELSE x

RECURSIVE GCD(_, _)
GCD(a, b) == IF b = 0 THEN a ELSE GCD(b, a % b)

Rat(n, d) ==
    LET sgn == IF d < 0 THEN 0 - 1 ELSE 1
        g == GCD(Abs(n), Abs(d))
    IN  [num |-> (sgn * n) \div g, den |-> (sgn * d) \div g]

RInt(n) == [num |-> n, den |-> 1]
RAdd(a, b) == Rat(a.num * b.den + b.num * a.den, a.den * b.den)
RSub(a, b) == Rat(a.num * b.den - b.num * a.den, a.den * b.den)
RMul(a, b) == Rat(a.num * b.num, a.den * b.den)
RDiv(a, b) == Rat(a.num * b.den, a.den * b.num)
RLt(a, b) == a.num * b.den < b.num * a.den
RAbs(a) == [num |-> Abs(a.num), den |-> a.den]

\* a detector coordinate given in 1/1000
Coord(k) == Rat(k, 1000)

AspectTolerance == Rat(1, 100)     \* 0.01

\* cropAmount / 2: the margin cropped on each of the two sides
CropMargin_whole(cropAmount) == cropAmount

CropMargin(cropAmount) == RDiv(cropAmount, RInt(2))

getVideoScale_reversed(canvas, video) ==
    LET full == [width |-> canvas.width, height |-> canvas.height,
                 offsetX |-> Zero, offsetY |-> Zero,
                 cropX |-> Zero, cropY |-> Zero,
                 cropWidth |-> One, cropHeight |-> One]
    IN  IF video = NoVideo THEN full
        ELSE
        LET canvasWidth == canvas.width
            canvasHeight == canvas.height
            videoWidth == IF video.videoWidth # 0 THEN video.videoWidth
                          ELSE IF video.width # 0 THEN video.width
                          ELSE canvasWidth
            videoHeight == IF video.videoHeight # 0 THEN video.videoHeight
                           ELSE IF video.height # 0 THEN video.height
                           ELSE canvasHeight
            videoAspect == Rat(videoWidth, videoHeight)
            canvasAspect == Rat(canvasWidth, canvasHeight)
        IN  IF RLt(AspectTolerance, RAbs(RSub(videoAspect, canvasAspect)))
            THEN IF RLt(videoAspect, canvasAspect)
                 THEN LET visibleVideoWidth ==
                              RMul(RInt(videoHeight), canvasAspect)
                          cropAmount ==
                              RDiv(RSub(RInt(videoWidth), visibleVideoWidth),
                                   RInt(videoWidth))
                      IN  [full EXCEPT !.cropX = CropMargin(cropAmount),
                                       !.cropWidth = RSub(One, cropAmount)]
                 ELSE LET visibleVideoHeight ==
                              RDiv(RInt(videoWidth), canvasAspect)
                          cropAmount ==
                              RDiv(RSub(RInt(videoHeight), visibleVideoHeight),
                                   RInt(videoHeight))
                      IN  [full EXCEPT !.cropY = CropMargin(cropAmount),
                                       !.cropHeight = RSub(One, cropAmount)]
            ELSE full

getVideoScale(canvas, video) ==
    LET full == [width |-> canvas.width, height |-> canvas.height,
                 offsetX |-> Zero, offsetY |-> Zero,
                 cropX |-> Zero, cropY |-> Zero,
                 cropWidth |-> One, cropHeight |-> One]
    IN  IF video = NoVideo THEN full
        ELSE
        LET canvasWidth == canvas.width
            canvasHeight == canvas.height
            videoWidth == IF video.videoWidth # 0 THEN video.videoWidth
                          ELSE IF video.width # 0 THEN video.width
                          ELSE canvasWidth
            videoHeight == IF video.videoHeight # 0 THEN video.videoHeight
                           ELSE IF video.height # 0 THEN video.height
                           ELSE canvasHeight
            videoAspect == Rat(videoWidth, videoHeight)
            canvasAspect == Rat(canvasWidth, canvasHeight)
        IN  IF RLt(AspectTolerance, RAbs(RSub(videoAspect, canvasAspect)))
            THEN IF RLt(canvasAspect, videoAspect)
                 THEN LET visibleVideoWidth ==
                              RMul(RInt(videoHeight), canvasAspect)
                          cropAmount ==
                              RDiv(RSub(RInt(videoWidth), visibleVideoWidth),
                                   RInt(videoWidth))
                      IN  [full EXCEPT !.cropX = CropMargin(cropAmount),
                                       !.cropWidth = RSub(One, cropAmount)]
                 ELSE LET visibleVideoHeight ==
                              RDiv(RInt(videoWidth), canvasAspect)
                          cropAmount ==
                              RDiv(RSub(RInt(videoHeight), visibleVideoHeight),
                                   RInt(videoHeight))
                      IN  [full EXCEPT !.cropY = CropMargin(cropAmount),
                                       !.cropHeight = RSub(One, cropAmount)]
            ELSE full

\* (landmark.x - scale.cropX) / scale.cropWidth and its y counterpart
NormalizedX(x, scale) == RDiv(RSub(x, scale.cropX), scale.cropWidth)
NormalizedY(y, scale) == RDiv(RSub(y, scale.cropY), scale.cropHeight)

\* normalizedX < 0 || normalizedX > 1 || normalizedY < 0 || normalizedY > 1
OutsideVisible_xOnly(nx, ny) == RLt(nx, Zero) \/ RLt(One, nx)

OutsideVisible(nx, ny) ==
    RLt(nx, Zero) \/ RLt(One, nx) \/ RLt(ny, Zero) \/ RLt(One, ny)

\* (1 - normalizedX) * scale.width + scale.offsetX
FlippedX(nx, scale) ==
    RAdd(RMul(RSub(One, nx), RInt(scale.width)), scale.offsetX)

\* normalizedY * scale.height + scale.offsetY
ScaledY(ny, scale) == RAdd(RMul(ny, RInt(scale.height)), scale.offsetY)

\* one canvas call: kind of primitive, the landmark indices it was made
\* from, its position p and its second point or size q
Primitive(kind, src, p, q) == [kind |-> kind, src |-> src, p |-> p, q |-> q]

Point(x, y) == [x |-> x, y |-> y]

\* landmarks.forEach body of drawHandLandmarks / drawFaceLandmarks for the
\* landmark of index i (from 0); hand: also the debug index text
DrawLandmark(landmarks, i, scale, hand) ==
    LET normalizedX == NormalizedX(Coord(landmarks[i + 1].x), scale)
        normalizedY == NormalizedY(Coord(landmarks[i + 1].y), scale)
        x == FlippedX(normalizedX, scale)
        y == ScaledY(normalizedY, scale)
    IN  IF OutsideVisible(normalizedX, normalizedY) THEN <<>>
        ELSE <<Primitive("dot", <<i>>, Point(x, y), Point(x, y))>>
             \o (IF hand /\ i % 4 = 0
                 THEN <<Primitive("index", <<i>>,
                                  Point(RAdd(x, RInt(5)), RSub(y, RInt(5))),
                                  Point(x, y))>>
                 ELSE <<>>)

RECURSIVE DrawLandmarks(_, _, _, _)
DrawLandmarks(landmarks, i, scale, hand) ==
    IF i >= Len(landmarks) THEN <<>>
    ELSE DrawLandmark(landmarks, i, scale, hand)
         \o DrawLandmarks(landmarks, i + 1, scale, hand)

\* the connection table of drawHandConnections
Connections ==
    << <<0, 1>>, <<1, 2>>, <<2, 3>>, <<3, 4>>,
       <<0, 5>>, <<5, 6>>, <<6, 7>>, <<7, 8>>,
       <<0, 9>>, <<9, 10>>, <<10, 11>>, <<11, 12>>,
       <<0, 13>>, <<13, 14>>, <<14, 15>>, <<15, 16>>,
       <<0, 17>>, <<17, 18>>, <<18, 19>>, <<19, 20>>,
       <<5, 9>>, <<9, 13>>, <<13, 17>> >>

\* connections.forEach body for the connection of table index k
DrawConnection(landmarks, k, scale) ==
    LET start == Connections[k][1]
        end == Connections[k][2]
    IN  IF start < Len(landmarks) /\ end < Len(landmarks)
        THEN LET normalizedX1 == NormalizedX(Coord(landmarks[start + 1].x), scale)
                 normalizedY1 == NormalizedY(Coord(landmarks[start + 1].y), scale)
                 normalizedX2 == NormalizedX(Coord(landmarks[end + 1].x), scale)
                 normalizedY2 == NormalizedY(Coord(landmarks[end + 1].y), scale)
             IN  IF OutsideVisible(normalizedX1, normalizedY1)
                      /\ OutsideVisible(normalizedX2, normalizedY2)
                 THEN <<>>
                 ELSE <<Primitive("line", <<start, end>>,
                          Point(FlippedX(normalizedX1, scale),
                                ScaledY(normalizedY1, scale)),
                          Point(FlippedX(normalizedX2, scale),
                                ScaledY(normalizedY2, scale)))>>
        ELSE <<>>

RECURSIVE drawHandConnectionsFrom(_, _, _)
drawHandConnectionsFrom(landmarks, k, scale) ==
    IF k > Len(Connections) THEN <<>>
    ELSE DrawConnection(landmarks, k, scale)
         \o drawHandConnectionsFrom(landmarks, k + 1, scale)

drawHandConnections(landmarks, scale) ==
    drawHandConnectionsFrom(landmarks, 1, scale)

\* the gesture label of a hand, anchored at the corner of its bounding box
DrawGestureLabel(hand, scale) ==
    IF hand.gesture # "unknown" /\ ~hand.boundingBox.isNull
    THEN LET bbox == hand.boundingBox
             normalizedX == NormalizedX(Coord(bbox.x), scale)
             normalizedY == NormalizedY(Coord(bbox.y), scale)
         IN  IF ~RLt(normalizedX, Zero) /\ ~RLt(One, normalizedX)
                  /\ ~RLt(normalizedY, Zero) /\ ~RLt(One, normalizedY)
             THEN LET p == Point(RAdd(RMul(normalizedX, RInt(scale.width)),
                                      scale.offsetX),
                                 RSub(ScaledY(normalizedY, scale), RInt(10)))
                  IN  <<Primitive("label", <<>>, p, p)>>
             ELSE <<>>
    ELSE <<>>

\* hands.forEach body of drawHandLandmarks
drawHandLandmarks(hand, scale) ==
    DrawLandmarks(hand.landmarks, 0, scale, TRUE)
    \o drawHandConnections(hand.landmarks, scale)
    \o DrawGestureLabel(hand, scale)

\* the bounding box of a face, drawn when it is at least partly visible
DrawFaceBox(face, scale) ==
    IF ~face.boundingBox.isNull
    THEN LET bbox == face.boundingBox
             normalizedX == NormalizedX(Coord(bbox.x), scale)
             normalizedY == NormalizedY(Coord(bbox.y), scale)
             normalizedWidth == RDiv(Coord(bbox.width), scale.cropWidth)
             normalizedHeight == RDiv(Coord(bbox.height), scale.cropHeight)
         IN  IF RLt(Zero, RAdd(normalizedX, normalizedWidth))
                  /\ RLt(normalizedX, One)
                  /\ RLt(Zero, RAdd(normalizedY, normalizedHeight))
                  /\ RLt(normalizedY, One)
             THEN <<Primitive("rect", <<>>,
                      Point(RAdd(RMul(RSub(RSub(One, normalizedX),
                                           normalizedWidth),
                                      RInt(scale.width)), scale.offsetX),
                            ScaledY(normalizedY, scale)),
                      Point(RMul(normalizedWidth, RInt(scale.width)),
                            RMul(normalizedHeight, RInt(scale.height))))>>
             ELSE <<>>
    ELSE <<>>

\* faces.forEach body of drawFaceLandmarks
drawFaceLandmarks(face, scale) ==
    DrawLandmarks(face.landmarks, 0, scale, FALSE)
    \o DrawFaceBox(face, scale)

\* the observation processHandResults / processFaceResults builds from a
\* landmark list
Observation(landmarks, gesture) ==
    [landmarks |-> landmarks, gesture |-> gesture,
     boundingBox |-> calculateBoundingBox(landmarks)]

----------------------------------------------------------------------------
(* VirtualInteractionHandler: pure helpers                                 *)

\* squared distance, in (1/1000)^2, between the hand position and the
\* normalized centre of the button bounds; Math.sqrt is monotone, so
\* callers compare it with the squared threshold
calculateDistance(handPos, buttonBounds) ==
    LET buttonCenterX == ((2 * buttonBounds.left + buttonBounds.width) * 1000)
                             \div (2 * Window.innerWidth)
        buttonCenterY == ((2 * buttonBounds.top + buttonBounds.height) * 1000)
                             \div (2 * Window.innerHeight)
        dx == handPos.x - buttonCenterX
        dy == handPos.y - buttonCenterY
    IN  dx * dx + dy * dy

getElementBounds_atRegistration(element) == RectA

getElementBounds(element) == elementRect[element]

\* Math.min(holdDuration / holdTime, 1) as an exact fraction
Progress(holdDuration, ht) ==
    IF holdDuration >= ht THEN One
    ELSE IF holdDuration = 0 THEN Zero
    ELSE [num |-> holdDuration, den |-> ht]

AtLeastOne(p) == p.num >= p.den

Event(type, o, id, hand) == [type |-> type, obj |-> o, id |-> id, hand |-> hand]

\* no exception is propagating
NoError == "none"

Threw(st) == st.thrown # NoError

\* statements in sequence: F runs on the state st leaves, unless st threw
Then(st, F(_)) ==
    CHOOSE r \in {IF Threw(s) THEN s ELSE F(s) : s \in {st}} : TRUE

\* a catch block: H runs on the state st leaves, if st threw
Catch(st, H(_)) ==
    CHOOSE r \in {IF Threw(s) THEN H(s) ELSE s : s \in {st}} : TRUE

\* a callback given to setCallbacks is called, which ev records; it throws
\* when st.faults names it, and the exception (named after what threw it)
\* propagates to the caller
Callback(st, ev) ==
    [st EXCEPT !.events = Append(@, ev),
               !.thrown = IF ev.type \in st.faults THEN ev.type ELSE @]

\* the entries pushed to this.handPositions, from hand i on
RECURSIVE ExtractPositions_anyLength(_, _)
ExtractPositions_anyLength(handResults, i) ==
    IF i > Len(handResults) THEN <<>>
    ELSE <<[handIndex |-> i - 1, position |-> handResults[i].tip,
            gesture |-> handResults[i].gesture]>>
         \o ExtractPositions_anyLength(handResults, i + 1)

RECURSIVE ExtractPositions(_, _)
ExtractPositions(handResults, i) ==
    IF i > Len(handResults) THEN <<>>
    ELSE IF handResults[i].n >= RequiredLandmarks
         THEN <<[handIndex |-> i - 1, position |-> handResults[i].tip,
                 gesture |-> handResults[i].gesture]>>
              \o ExtractPositions(handResults, i + 1)
         ELSE ExtractPositions(handResults, i + 1)

\* indices of the hand positions within the threshold of the bounds
HoveringHands(hp, bounds, threshold) ==
    {i \in 1..Len(hp) :
        calculateDistance(hp[i].position, bounds) < threshold * threshold}

\* the hand the forEach loop leaves in closestHand: the first one at the
\* minimal distance among those within the threshold
ClosestHand_firstWithin(hp, bounds, threshold) ==
    LET Q == HoveringHands(hp, bounds, threshold)
    IN  IF Q = {} THEN NoHand
        ELSE hp[CHOOSE i \in Q : \A j \in Q : i <= j]

ClosestHand(hp, bounds, threshold) ==
    LET Q == HoveringHands(hp, bounds, threshold)
        d(i) == calculateDistance(hp[i].position, bounds)
    IN  IF Q = {} THEN NoHand
        ELSE hp[CHOOSE i \in Q :
                    \A j \in Q : d(i) < d(j) \/ (d(i) = d(j) /\ i <= j)]

----------------------------------------------------------------------------
(* VirtualInteractionHandler: the mutating methods.  st is the mutable     *)
(* program state [buttons, timers, events, ...]; o is a button object.     *)

resetHoldState_keepStart(st, o) ==
    [st EXCEPT !.buttons[o].holdProgress = Zero]

resetHoldState(st, o) ==
    [st EXCEPT !.buttons[o].holdStartTime = Null,
               !.buttons[o].holdProgress = Zero]

releaseButton(st, o, hand) ==
    LET s1 == IF st.buttons[o].isPressed
              THEN Callback([st EXCEPT !.buttons[o].isPressed = FALSE],
                            Event("release", o, st.buttons[o].id, hand))
              ELSE st
    IN  Then(s1, LAMBDA s : resetHoldState(s, o))

activateButton(st, o, hand) ==
    LET s1 == Callback([st EXCEPT !.buttons[o].isPressed = TRUE],
                       Event("press", o, st.buttons[o].id, hand))
    IN  Then(s1, LAMBDA s :
               [s EXCEPT
                  !.timers = Append(@, [kind |-> "release", obj |-> o,
                                        hand |-> hand,
                                        due |-> now + ReleaseDelayMs])])

handleHoverState_leaveResetsAll(st, o, isHovered, hand, timestamp) ==
    IF isHovered /\ ~st.buttons[o].isHovered
    THEN Callback([st EXCEPT !.buttons[o].isHovered = TRUE],
                  Event("hover:enter", o, st.buttons[o].id, hand))
    ELSE IF ~isHovered /\ st.buttons[o].isHovered
    THEN LET s1 == Callback([st EXCEPT !.buttons[o].isHovered = FALSE],
                            Event("hover:leave", o, st.buttons[o].id, hand))
         IN  IF Threw(s1) THEN s1
             ELSE [s1 EXCEPT !.buttons =
                     [p \in DOMAIN s1.buttons |->
                        [s1.buttons[p] EXCEPT !.holdStartTime = Null,
                                              !.holdProgress = Zero]]]
    ELSE st

handleHoverState(st, o, isHovered, hand, timestamp) ==
    IF isHovered /\ ~st.buttons[o].isHovered
    THEN Callback([st EXCEPT !.buttons[o].isHovered = TRUE],
                  Event("hover:enter", o, st.buttons[o].id, hand))
    ELSE IF ~isHovered /\ st.buttons[o].isHovered
    THEN LET s1 == Callback([st EXCEPT !.buttons[o].isHovered = FALSE],
                            Event("hover:leave", o, st.buttons[o].id, hand))
         IN  Then(s1, LAMBDA s : resetHoldState(s, o))
    ELSE st

handlePressState_pressEveryFrame(st, o, isHovered, hand, timestamp) ==
    IF isHovered /\ hand # NoHand
    THEN IF st.buttons[o].options.requireHold
         THEN LET start == IF st.buttons[o].holdStartTime = Null
                              \/ st.buttons[o].holdStartTime = 0
                           THEN timestamp
                           ELSE st.buttons[o].holdStartTime
                  holdDuration == timestamp - start
                  progress == Progress(holdDuration,
                                       st.buttons[o].options.holdTime)
                  s1 == [st EXCEPT !.buttons[o].holdStartTime = start,
                                   !.buttons[o].holdProgress = progress]
              IN  IF AtLeastOne(progress)
                  THEN activateButton(s1, o, hand)
                  ELSE s1
         ELSE activateButton(st, o, hand)
    ELSE resetHoldState(st, o)

handlePressState(st, o, isHovered, hand, timestamp) ==
    IF isHovered /\ hand # NoHand
    THEN IF st.buttons[o].options.requireHold
         THEN LET start == IF st.buttons[o].holdStartTime = Null
                              \/ st.buttons[o].holdStartTime = 0
                           THEN timestamp
                           ELSE st.buttons[o].holdStartTime
                  holdDuration == timestamp - start
                  progress == Progress(holdDuration,
                                       st.buttons[o].options.holdTime)
                  s1 == [st EXCEPT !.buttons[o].holdStartTime = start,
                                   !.buttons[o].holdProgress = progress]
              IN  IF AtLeastOne(progress) /\ ~s1.buttons[o].isPressed
                  THEN activateButton(s1, o, hand)
                  ELSE s1
         ELSE IF ~st.buttons[o].isPressed
              THEN activateButton(st, o, hand)
              ELSE st
    ELSE resetHoldState(st, o)

\* body of the forEach in checkInteractions for one button
checkButton_anyHand(st, o, timestamp) ==
    LET bounds == getElementBounds(st.buttons[o].element)
        s0 == [st EXCEPT !.buttons[o].bounds = bounds]
        threshold == st.buttons[o].options.threshold
        isCurrentlyHovered ==
            HoveringHands(st.handPositions, bounds, threshold) # {}
        closestHand == ClosestHand(st.handPositions, bounds, threshold)
        s1 == handleHoverState(s0, o, isCurrentlyHovered, closestHand,
                               timestamp)
    IN  Then(s1, LAMBDA s :
               handlePressState(s, o, Len(st.handPositions) > 0,
                                IF closestHand = NoHand
                                   /\ Len(st.handPositions) > 0
                                THEN st.handPositions[1] ELSE closestHand,
                                timestamp))

checkButton(st, o, timestamp) ==
    LET bounds == getElementBounds(st.buttons[o].element)
        s0 == [st EXCEPT !.buttons[o].bounds = bounds]
        threshold == st.buttons[o].options.threshold
        isCurrentlyHovered ==
            HoveringHands(st.handPositions, bounds, threshold) # {}
        closestHand == ClosestHand(st.handPositions, bounds, threshold)
        s1 == handleHoverState(s0, o, isCurrentlyHovered, closestHand,
                               timestamp)
    IN  Then(s1, LAMBDA s : handlePressState(s, o, isCurrentlyHovered,
                                             closestHand, timestamp))

RECURSIVE checkInteractionsFrom(_, _, _)
checkInteractionsFrom(st, k, timestamp) ==
    IF k > Len(virtualButtons) THEN st
    ELSE Then(st, LAMBDA s :
                checkInteractionsFrom(
                    checkButton(s, virtualButtons[k], timestamp),
                    k + 1, timestamp))

checkInteractions(st) == checkInteractionsFrom(st, 1, now)

clearButton_keepHold(st, o) ==
    LET s1 == IF st.buttons[o].isHovered
              THEN [st EXCEPT !.buttons[o].isHovered = FALSE]
              ELSE st
    IN  IF s1.buttons[o].isPressed
        THEN releaseButton(s1, o, NoHand)
        ELSE s1

clearButton(st, o) ==
    LET s1 == IF st.buttons[o].isHovered
              THEN [st EXCEPT !.buttons[o].isHovered = FALSE]
              ELSE st
        s2 == IF s1.buttons[o].isPressed
              THEN releaseButton(s1, o, NoHand)
              ELSE s1
    IN  Then(s2, LAMBDA s : resetHoldState(s, o))

RECURSIVE clearAllInteractionsFrom(_, _)
clearAllInteractionsFrom(st, k) ==
    IF k > Len(virtualButtons) THEN st
    ELSE Then(st, LAMBDA s :
                clearAllInteractionsFrom(clearButton(s, virtualButtons[k]),
                                         k + 1))

clearAllInteractions(st) == clearAllInteractionsFrom(st, 1)

\* !handResults || handResults.length === 0
NoHands(handResults) == handResults.isNull \/ Len(handResults.hands) = 0

\* calling forEach of a list that is null throws a TypeError
updateHandPositions(st, handResults) ==
    LET s0 == [st EXCEPT !.handPositions = <<>>]
    IN  IF NoHands(handResults)
        THEN clearAllInteractions(s0)
        ELSE IF handResults.isNull THEN [s0 EXCEPT !.thrown = "TypeError"]
        ELSE checkInteractions(
               [s0 EXCEPT !.handPositions =
                             ExtractPositions(handResults.hands, 1)])

----------------------------------------------------------------------------
(* VRPhotoboothApp: the peace-sign hold timer                              *)

CeilDiv(a, b) == 0 - ((0 - a) \div b)

\* Math.ceil((this.peaceSignDuration - elapsed) / 1000)
Remaining_floor(elapsed) == (peaceSignDuration - elapsed) \div 1000

Remaining(elapsed) == CeilDiv(peaceSignDuration - elapsed, 1000)

hasPeaceSign(hands) == \E i \in 1..Len(hands) : hands[i].gesture = "peace"

GestureEvent(type, value) == [type |-> type, value |-> value]

checkPeaceSignGesture_firesInCooldown(st, hands) ==
    IF hasPeaceSign(hands)
    THEN IF st.peaceSignStartTime = Null \/ st.peaceSignStartTime = 0
         THEN [st EXCEPT !.peaceSignStartTime = now]
         ELSE LET elapsed == now - st.peaceSignStartTime
                  remaining == Remaining(elapsed)
              IN  IF remaining > 0
                  THEN [st EXCEPT !.events =
                          Append(@, GestureEvent("showGestureTimer", remaining))]
                  ELSE [st EXCEPT
                          !.isCapturingFromGesture = TRUE,
                          !.events = @ \o <<GestureEvent("hideGestureTimer", 0),
                                            GestureEvent("capturePhoto", 0)>>,
                          !.timers = Append(@, [kind |-> "cooldown",
                                                obj |-> Null, hand |-> NoHand,
                                                due |-> now + CooldownDelayMs])]
    ELSE IF (st.peaceSignStartTime # Null /\ st.peaceSignStartTime # 0)
            /\ ~st.isCapturingFromGesture
         THEN [st EXCEPT !.peaceSignStartTime = Null,
                         !.events = Append(@, GestureEvent("hideGestureTimer", 0))]
         ELSE st

checkPeaceSignGesture_showsZero(st, hands) ==
    IF hasPeaceSign(hands) /\ ~st.isCapturingFromGesture
    THEN IF st.peaceSignStartTime = Null \/ st.peaceSignStartTime = 0
         THEN [st EXCEPT !.peaceSignStartTime = now]
         ELSE LET elapsed == now - st.peaceSignStartTime
                  remaining == Remaining(elapsed)
              IN  IF remaining >= 0
                  THEN [st EXCEPT !.events =
                          Append(@, GestureEvent("showGestureTimer", remaining))]
                  ELSE [st EXCEPT
                          !.isCapturingFromGesture = TRUE,
                          !.events = @ \o <<GestureEvent("hideGestureTimer", 0),
                                            GestureEvent("capturePhoto", 0)>>,
                          !.timers = Append(@, [kind |-> "cooldown",
                                                obj |-> Null, hand |-> NoHand,
                                                due |-> now + CooldownDelayMs])]
    ELSE IF (st.peaceSignStartTime # Null /\ st.peaceSignStartTime # 0)
            /\ ~st.isCapturingFromGesture
         THEN [st EXCEPT !.peaceSignStartTime = Null,
                         !.events = Append(@, GestureEvent("hideGestureTimer", 0))]
         ELSE st

checkPeaceSignGesture(st, hands) ==
    IF hasPeaceSign(hands) /\ ~st.isCapturingFromGesture
    THEN IF st.peaceSignStartTime = Null \/ st.peaceSignStartTime = 0
         THEN [st EXCEPT !.peaceSignStartTime = now]
         ELSE LET elapsed == now - st.peaceSignStartTime
                  remaining == Remaining(elapsed)
              IN  IF remaining > 0
                  THEN [st EXCEPT !.events =
                          Append(@, GestureEvent("showGestureTimer", remaining))]
                  ELSE [st EXCEPT
                          !.isCapturingFromGesture = TRUE,
                          !.events = @ \o <<GestureEvent("hideGestureTimer", 0),
                                            GestureEvent("capturePhoto", 0)>>,
                          !.timers = Append(@, [kind |-> "cooldown",
                                                obj |-> Null, hand |-> NoHand,
                                                due |-> now + CooldownDelayMs])]
    ELSE IF (st.peaceSignStartTime # Null /\ st.peaceSignStartTime # 0)
            /\ ~st.isCapturingFromGesture
         THEN [st EXCEPT !.peaceSignStartTime = Null,
                         !.events = Append(@, GestureEvent("hideGestureTimer", 0))]
         ELSE st

cooldownElapsed_keepFlag(st) ==
    [st EXCEPT !.peaceSignStartTime = Null]

cooldownElapsed_keepStart(st) ==
    [st EXCEPT !.isCapturingFromGesture = FALSE]

\* the setTimeout callback scheduled when the capture fires
cooldownElapsed(st) ==
    [st EXCEPT !.isCapturingFromGesture = FALSE, !.peaceSignStartTime = Null]

\* sceneManager.updateFromDetection, as far as the interaction layer
\* sees it: it returns or throws
updateFromDetection(st) ==
    IF "updateFromDetection" \in st.faults
    THEN [st EXCEPT !.thrown = "updateFromDetection"]
    ELSE st

handleHandDetection(st, hands) ==
    LET s1 == updateFromDetection(st)
        s2 == Then(s1, LAMBDA s : updateHandPositions(s, HandList(hands)))
    IN  Then(s2, LAMBDA s : checkPeaceSignGesture(s, hands))

\* MediaPipeHandler.initialize() has completed
isInitialized == TRUE

\* !this.isInitialized || this.isProcessing
SkipsFrame_uninitializedOnly(processing) == ~isInitialized

SkipsFrame(processing) == ~isInitialized \/ processing

\* processFrame with the app's handleHandDetection as onHandDetection.
\* ready: videoElement.readyState >= 2; results: what the hand landmarker
\* detects; again: the detector outputs of the processFrame calls that a
\* 'detection-results' listener makes before this call returns.  The body
\* has no await, so such a call is the only one that can find
\* isProcessing set.
\* The hand detector throwing is caught around the detection and leaves
\* results.hands null; anything thrown after it is caught and given to
\* handleError; isProcessing is cleared in the finally block.
\* results.hands: detectForVideo and processHandResults inside their try
DetectHands(st, results) ==
    IF "handLandmarker" \in st.faults
    THEN [isNull |-> TRUE, hands |-> <<>>]
    ELSE processHandResults(results)

\* MediaPipeHandler.handleError: the onError callback
handleError(st) == Callback(st, [type |-> "onError", value |-> 0])

\* this.isProcessing = false, in the finally block
finally_onSuccess(st) ==
    IF Threw(st) \/ st.caught # NoError THEN st
    ELSE [st EXCEPT !.isProcessing = FALSE]

finally(st) == [st EXCEPT !.isProcessing = FALSE]

RECURSIVE processFrameFrom(_, _, _, _)
processFrameFrom(st, ready, results, again) ==
    IF SkipsFrame(st.isProcessing) THEN [st EXCEPT !.dropped = @ + 1]
    ELSE IF ~ready THEN st
    ELSE LET s1 == [st EXCEPT !.isProcessing = TRUE,
                              !.detected = Append(@, results)]
             hands == DetectHands(s1, results)
             s2 == IF ~hands.isNull
                   THEN handleHandDetection(s1, hands.hands)
                   ELSE s1
             s3 == Then(s2, LAMBDA s :
                          IF Len(again) > 0
                          THEN processFrameFrom(s, TRUE, again[1], <<>>)
                          ELSE s)
             s4 == Catch(s3, LAMBDA s :
                           handleError([s EXCEPT !.thrown = NoError,
                                                 !.caught = s.thrown]))
         IN  finally(s4)

----------------------------------------------------------------------------
(* Program state as one record, and its history                            *)

\* detected: the detector outputs processed in the step; dropped: the
\* processFrame calls of the step that returned at the first guard
\* faults: the callbacks and collaborators that throw when called in the
\* step; thrown: the exception propagating; caught: the one a catch block
\* of the step has handled
State == [buttons |-> buttons, timers |-> timers, events |-> <<>>,
          handPositions |-> handPositions,
          peaceSignStartTime |-> peaceSignStartTime,
          isCapturingFromGesture |-> isCapturingFromGesture,
          isProcessing |-> isProcessing, animationId |-> animationId,
          detected |-> <<>>, dropped |-> 0,
          faults |-> {}, thrown |-> NoError, caught |-> NoError]

IsRegistered(o) == \E k \in 1..Len(virtualButtons) : virtualButtons[k] = o

\* summary of a delivered frame: number of hands, whether one shows peace,
\* the landmark count and index fingertip the detector gave for each, how
\* many times the detector ran, how many processFrame calls were dropped,
\* what threw while the frame was processed, whether the step called
\* processFrame with a video that was ready
Frame(hands) ==
    [hands |-> Len(hands), peace |-> hasPeaceSign(hands),
     tips |-> [i \in 1..Len(hands) |-> [n |-> hands[i].n, tip |-> hands[i].tip]],
     detections |-> 0, dropped |-> 0, error |-> NoError, offered |-> FALSE]

NoFrame == [hands |-> Null, peace |-> FALSE, tips |-> <<>>,
            detections |-> 0, dropped |-> 0, error |-> NoError,
            offered |-> FALSE]

\* the summary of what processFrame did with the detector output results
FrameOf(st, hands, ready) ==
    IF Len(st.detected) > 0
    THEN [Frame(hands.hands) EXCEPT
            !.detections = Len(st.detected),
            !.dropped = st.dropped,
            !.error = IF Threw(st) THEN st.thrown ELSE st.caught,
            !.offered = ready]
    ELSE [NoFrame EXCEPT !.dropped = st.dropped, !.offered = ready]

\* some hand of the frame has 21 or more landmarks and its index fingertip
\* is within the threshold of the centre of the button's element
Qualifies(o, handResults) ==
    \E i \in 1..Len(handResults) :
        /\ handResults[i].n >= RequiredLandmarks
        /\ calculateDistance(handResults[i].tip,
                             elementRect[buttons[o].element])
             < buttons[o].options.threshold * buttons[o].options.threshold

\* squared distance between a point and the normalized centre of the
\* rectangle of button o's element
ToCentre(p, o) ==
    LET rect == elementRect[buttons[o].element]
        cx == ((2 * rect.left + rect.width) * 1000) \div (2 * Window.innerWidth)
        cy == ((2 * rect.top + rect.height) * 1000) \div (2 * Window.innerHeight)
    IN  (p.x - cx) * (p.x - cx) + (p.y - cy) * (p.y - cy)

Count(evs, type, o) ==
    Cardinality({i \in 1..Len(evs) : evs[i].type = type /\ evs[i].obj = o})

ButtonEvents(evs) ==
    SelectSeq(evs, LAMBDA e : e.type \in {"press", "release", "hover:enter",
                                          "hover:leave"})

FreeSlot ==
    [id |-> "-", element |-> "-", bounds |-> RectA,
     isHovered |-> FALSE, isPressed |-> FALSE,
     holdStartTime |-> Null, holdProgress |-> Zero,
     options |-> [threshold |-> interactionThreshold, holdTime |-> holdTime,
                  requireHold |-> TRUE]]

NewHist == [qualSince |-> Null, pressedAt |-> Null, episodePresses |-> 0]

\* history after a step that emitted evs; framed: the step was a frame
\* given to updateHandPositions with hand list handResults
HistAfter(evs, framed, handResults) ==
    [o \in DOMAIN hist |->
        LET h == hist[o]
            bev == ButtonEvents(evs)
            presses == Count(bev, "press", o)
            releases == Count(bev, "release", o)
            q == framed /\ IsRegistered(o) /\ Qualifies(o, handResults)
            inFrame == framed /\ IsRegistered(o)
        IN  [qualSince |->
                IF ~inFrame THEN h.qualSince
                ELSE IF ~q THEN Null
                ELSE IF h.qualSince = Null THEN now ELSE h.qualSince,
             pressedAt |->
                IF presses > 0 THEN now
                ELSE IF releases > 0 THEN Null
                ELSE h.pressedAt,
             episodePresses |->
                LET base == IF inFrame /\ ~q THEN 0
                            ELSE IF inFrame /\ h.qualSince = Null THEN 0
                            ELSE h.episodePresses
                    sum == base + presses
                IN  IF sum > 2 THEN 2 ELSE sum]]

NewGestureHist ==
    [peaceSince |-> Null, lastCaptureAt |-> Null, captures |-> 0,
     shown |-> Null]

\* the countdown value the frame displayed, Null if it displayed none
ShownIn(evs) ==
    IF \E i \in 1..Len(evs) : evs[i].type = "showGestureTimer"
    THEN evs[CHOOSE i \in 1..Len(evs) : evs[i].type = "showGestureTimer"].value
    ELSE Null

Captures(evs) ==
    Cardinality({i \in 1..Len(evs) : evs[i].type = "capturePhoto"})

\* history after a frame was delivered to the gesture timer (or, in
\* processFrame, found to hold no hand); peace: some hand shows peace
GestureHistAfter(evs, peace) ==
    [peaceSince |-> IF ~peace THEN Null
                    ELSE IF gestureHist.peaceSince = Null THEN now
                    ELSE gestureHist.peaceSince,
     lastCaptureAt |-> IF Captures(evs) > 0 THEN now
                       ELSE gestureHist.lastCaptureAt,
     captures |-> IF gestureHist.captures + Captures(evs) > 2 THEN 2
                  ELSE gestureHist.captures + Captures(evs),
     shown |-> IF ShownIn(evs) # Null THEN ShownIn(evs)
               ELSE IF \E i \in 1..Len(evs) : evs[i].type = "hideGestureTimer"
               THEN Null
               ELSE gestureHist.shown]

\* an object is alive while the Map or a pending timeout callback refers
\* to it; the slots of the others are garbage, kept in one canonical form
Alive(o, vb, ts) ==
    \/ \E k \in 1..Len(vb) : vb[k] = o
    \/ \E i \in 1..Len(ts) : ts[i].kind = "release" /\ ts[i].obj = o

Collect(bs, vb, ts) ==
    [o \in DOMAIN bs |-> IF Alive(o, vb, ts) THEN bs[o] ELSE FreeSlot]

\* the hover episode of an object ends when it leaves the Map: no frame is
\* processed for it any more, so its press count is dropped
CollectHist(hs, vb, ts) ==
    [o \in DOMAIN hs |->
        IF \E k \in 1..Len(vb) : vb[k] = o THEN hs[o]
        ELSE IF Alive(o, vb, ts)
        THEN [hs[o] EXCEPT !.episodePresses = 0]
        ELSE NewHist]

Commit(st) ==
    /\ buttons' = Collect(st.buttons, virtualButtons, st.timers)
    /\ timers' = st.timers
    /\ events' = st.events
    /\ handPositions' = st.handPositions
    /\ peaceSignStartTime' = st.peaceSignStartTime
    /\ isCapturingFromGesture' = st.isCapturingFromGesture
    /\ isProcessing' = st.isProcessing
    /\ animationId' = st.animationId

----------------------------------------------------------------------------
(* Operations                                                              *)

NewButton(id, options) ==
    [id |-> id, element |-> id, bounds |-> getElementBounds(id),
     isHovered |-> FALSE, isPressed |-> FALSE,
     holdStartTime |-> Null, holdProgress |-> Zero,
     options |-> [threshold |-> IF options.threshold = Null
                                THEN interactionThreshold
                                ELSE options.threshold,
                  holdTime |-> IF options.holdTime = Null
                               THEN holdTime ELSE options.holdTime,
                  requireHold |-> options.requireHold # "false"]]

\* Map.set: an existing key keeps its position
MapSet(id, o) ==
    IF \E k \in 1..Len(virtualButtons) : buttons[virtualButtons[k]].id = id
    THEN [k \in 1..Len(virtualButtons) |->
             IF buttons[virtualButtons[k]].id = id THEN o
             ELSE virtualButtons[k]]
    ELSE Append(virtualButtons, o)

FreeSlots == {o \in DOMAIN buttons : ~Alive(o, virtualButtons, timers)}

registerButton(id, options) ==
    /\ FreeSlots # {}
    /\ LET o == CHOOSE f \in FreeSlots : \A g \in FreeSlots : f <= g
           vb == MapSet(id, o)
       IN  /\ virtualButtons' = vb
           /\ buttons' = Collect([buttons EXCEPT ![o] = NewButton(id, options)],
                                 vb, timers)
           /\ hist' = CollectHist(hist, vb, timers)
    /\ events' = <<>>
    /\ lastFrame' = NoFrame
    /\ UNCHANGED <<now, handPositions, timers, elementRect,
                   peaceSignStartTime, isCapturingFromGesture, isProcessing,
                   gestureHist, output, animationId, sessions,
                   captureManager, lifecycle>>

unregisterButton_lastWhenUnknown(id) ==
    /\ LET found == \E k \in 1..Len(virtualButtons) :
                       buttons[virtualButtons[k]].id = id
           vb == IF found
                 THEN SelectSeq(virtualButtons, LAMBDA o : buttons[o].id # id)
                 ELSE IF Len(virtualButtons) = 0 THEN virtualButtons
                 ELSE SubSeq(virtualButtons, 1, Len(virtualButtons) - 1)
       IN  /\ virtualButtons' = vb
           /\ buttons' = Collect(buttons, vb, timers)
           /\ hist' = CollectHist(hist, vb, timers)
    /\ events' = <<>>
    /\ lastFrame' = NoFrame
    /\ UNCHANGED <<now, handPositions, timers, elementRect,
                   peaceSignStartTime, isCapturingFromGesture, isProcessing,
                   gestureHist, output, animationId, sessions,
                   captureManager, lifecycle>>

unregisterButton(id) ==
    /\ LET vb == SelectSeq(virtualButtons, LAMBDA o : buttons[o].id # id)
       IN  /\ virtualButtons' = vb
           /\ buttons' = Collect(buttons, vb, timers)
           /\ hist' = CollectHist(hist, vb, timers)
    /\ events' = <<>>
    /\ lastFrame' = NoFrame
    /\ UNCHANGED <<now, handPositions, timers, elementRect,
                   peaceSignStartTime, isCapturingFromGesture, isProcessing,
                   gestureHist, output, animationId, sessions,
                   captureManager, lifecycle>>

\* a frame given to VirtualInteractionHandler.updateHandPositions
UpdateHandPositions(handResults) ==
    LET st == updateHandPositions(State, handResults)
    IN  /\ Len(st.timers) <= MaxTimers
        /\ Commit(st)
        /\ hist' = CollectHist(HistAfter(st.events, TRUE, handResults.hands),
                               virtualButtons, st.timers)
        /\ lastFrame' = [Frame(handResults.hands) EXCEPT !.error = st.thrown]
        /\ UNCHANGED <<now, virtualButtons, elementRect, gestureHist,
                       input, output, sessions, captureManager, lifecycle>>

\* a frame given to VRPhotoboothApp.checkPeaceSignGesture
CheckPeaceSignGesture(hands) ==
    LET st == checkPeaceSignGesture(State, hands)
    IN  /\ Len(st.timers) <= MaxTimers
        /\ Commit(st)
        /\ hist' = CollectHist(HistAfter(st.events, FALSE, hands),
                               virtualButtons, st.timers)
        /\ lastFrame' = Frame(hands)
        /\ gestureHist' = GestureHistAfter(st.events, hasPeaceSign(hands))
        /\ UNCHANGED <<now, virtualButtons, elementRect, input, output,
                       sessions, captureManager, lifecycle>>

\* a call of MediaPipeHandler.processFrame from the main loop
processFrame(ready, results, again, faults) ==
    LET s0 == [State EXCEPT !.faults = faults]
        hands == DetectHands(s0, results)
    IN  \E st \in {processFrameFrom(s0, ready, results, again)} :
          LET accepted == Len(st.detected) > 0
          IN  /\ Len(st.timers) <= MaxTimers
              /\ Commit(st)
              /\ hist' = CollectHist(HistAfter(st.events,
                                               accepted /\ ~hands.isNull,
                                               hands.hands),
                                     virtualButtons, st.timers)
              /\ lastFrame' = FrameOf(st, hands, ready)
              /\ gestureHist' = IF accepted
                                THEN GestureHistAfter(st.events,
                                                      hasPeaceSign(hands.hands))
                                ELSE gestureHist
              /\ UNCHANGED <<now, virtualButtons, elementRect, input, output,
                             sessions, captureManager, lifecycle>>

\* the timeout that fires next: earliest due time, then creation order
NextTimer ==
    CHOOSE i \in 1..Len(timers) :
        \A j \in 1..Len(timers) :
            timers[i].due < timers[j].due
            \/ (timers[i].due = timers[j].due /\ i <= j)

RemoveAt(seq, i) ==
    [k \in 1..(Len(seq) - 1) |-> IF k < i THEN seq[k] ELSE seq[k + 1]]

\* a pending setTimeout callback runs
TimerFires ==
    /\ Len(timers) > 0
    /\ timers[NextTimer].due <= now
    /\ LET t == timers[NextTimer]
           s0 == [State EXCEPT !.timers = RemoveAt(timers, NextTimer)]
           st == IF t.kind = "release"
                 THEN releaseButton(s0, t.obj, t.hand)
                 ELSE cooldownElapsed(s0)
       IN  /\ Commit(st)
           /\ hist' = CollectHist(HistAfter(st.events, FALSE, <<>>),
                                   virtualButtons, st.timers)
           /\ lastFrame' = NoFrame
    /\ UNCHANGED <<now, virtualButtons, elementRect, gestureHist,
                   input, output, sessions, captureManager, lifecycle>>

\* the clock advances to the next frame time; due timeouts run first
Tick(step, horizon) ==
    /\ \A i \in 1..Len(timers) : timers[i].due > now
    /\ now + step <= Epoch + horizon
    /\ now' = now + step
    /\ events' = <<>>
    /\ lastFrame' = NoFrame
    /\ UNCHANGED <<virtualButtons, buttons, handPositions, timers,
                   elementRect, peaceSignStartTime, isCapturingFromGesture,
                   isProcessing, hist, gestureHist, input, output,
                   animationId, sessions, captureManager, lifecycle>>

\* the page lays out again and an element gets another rectangle
MoveElement(element, rect) ==
    /\ elementRect[element] # rect
    /\ elementRect' = [elementRect EXCEPT ![element] = rect]
    /\ events' = <<>>
    /\ lastFrame' = NoFrame
    /\ UNCHANGED <<now, virtualButtons, buttons, handPositions, timers,
                   peaceSignStartTime, isCapturingFromGesture, isProcessing,
                   hist, gestureHist, input, output,
                   animationId, sessions, captureManager, lifecycle>>

\* PhotoCaptureManager after its constructor: no capture, no session.
\* calls holds, for every capturePhoto call that is awaiting, the promise
\* it awaits; created counts the sessions the server has created
NewCaptureManager ==
    [isCapturing |-> FALSE, currentSession |-> Null, calls |-> <<>>,
     started |-> 0, created |-> 0]

\* VRPhotoboothApp after its constructor; requested holds the ids of the
\* pending requestAnimationFrame callbacks, awaiting the runs of loop that
\* await processFrame
NewLifecycle ==
    [isInitialized |-> FALSE, isRunning |-> FALSE, requested |-> {},
     awaiting |-> {}, lastId |-> 0]

----------------------------------------------------------------------------
(* Specifications                                                          *)

\* VirtualInteractionHandler after construction and setCallbacks
Constructed ==
    /\ now = Epoch
    /\ virtualButtons = <<>>
    /\ buttons = [o \in 1..MaxObjects |-> FreeSlot]
    /\ handPositions = <<>>
    /\ timers = <<>>
    /\ elementRect = [e \in ButtonIds |-> RectA]
    /\ peaceSignStartTime = Null
    /\ isCapturingFromGesture = FALSE
    /\ isProcessing = FALSE
    /\ animationId = Null
    /\ sessions = NoSessions
    /\ captureManager = NewCaptureManager
    /\ lifecycle = NewLifecycle
    /\ events = <<>>
    /\ lastFrame = NoFrame
    /\ hist = [o \in 1..MaxObjects |-> NewHist]
    /\ gestureHist = NewGestureHist

Init ==
    /\ Constructed
    /\ input = NoCall
    /\ output = NoCall

TickVI == Tick(VITickMs, MaxTimeVI)

Next ==
    \/ \E id \in ButtonIds, options \in RegOptions :
          registerButton(id, options) /\ UNCHANGED input
    \/ \E id \in ButtonIds : unregisterButton(id) /\ UNCHANGED input
    \/ \E handResults \in HandLists : UpdateHandPositions(handResults)
    \/ TimerFires
    \/ TickVI

Spec == Init /\ [][Next]_vars

\* the gesture timer alone, driven through checkPeaceSignGesture
TickGesture == Tick(GestureTickMs, MaxTimeGesture)

NextGesture ==
    \/ \E hands \in HandFrames : CheckPeaceSignGesture(hands)
    \/ TimerFires
    \/ TickGesture

SpecGesture == Init /\ [][NextGesture]_vars

\* the same with the browser's scheduling: a timeout that is due runs, and
\* the clock goes on
SpecGestureFair ==
    /\ SpecGesture
    /\ WF_vars(TimerFires)
    /\ WF_vars(TickGesture)

\* VRPhotoboothApp after initialize(): the virtual capture button is
\* registered and the main loop delivers frames to processFrame
InitApp ==
    /\ now = Epoch
    /\ elementRect = [e \in ButtonIds |-> RectA]
    /\ buttons = [o \in 1..MaxObjects |->
                    IF o = 1
                    THEN NewButton("capture",
                           [threshold |-> Null, holdTime |-> CaptureHoldTime,
                            requireHold |-> "true"])
                    ELSE FreeSlot]
    /\ virtualButtons = <<1>>
    /\ handPositions = <<>>
    /\ timers = <<>>
    /\ peaceSignStartTime = Null
    /\ isCapturingFromGesture = FALSE
    /\ isProcessing = FALSE
    /\ animationId = 1
    /\ sessions = NoSessions
    /\ captureManager = NewCaptureManager
    /\ lifecycle = NewLifecycle
    /\ events = <<>>
    /\ lastFrame = NoFrame
    /\ hist = [o \in 1..MaxObjects |-> NewHist]
    /\ gestureHist = NewGestureHist
    /\ input = NoCall
    /\ output = NoCall

TickApp == Tick(AppTickMs, MaxTimeApp)

NextApp ==
    \/ \E ready \in BOOLEAN, results \in RawFrames :
          processFrame(ready, results, <<>>, {})
    \/ TimerFires
    \/ TickApp

SpecApp == InitApp /\ [][NextApp]_vars

\* the same application while the page lays out again and with listeners
\* of 'detection-results' that call processFrame themselves
TickFrames == Tick(FrameTickMs, MaxTimeFrames)

NextFrames ==
    \/ \E ready \in BOOLEAN, results \in RawFrames, again \in Reentries :
          processFrame(ready, results, again, {})
    \/ \E element \in ButtonIds, rect \in Rects : MoveElement(element, rect)
    \/ TimerFires
    \/ TickFrames

SpecFrames == InitApp /\ [][NextFrames]_vars

\* this.isRunning: the application has not been paused or destroyed
isRunning == TRUE

\* VRPhotoboothApp.updateDetectionOverlay, as far as the loop sees it: it
\* returns or throws
updateDetectionOverlay(st) ==
    IF "overlay" \in st.faults THEN [st EXCEPT !.thrown = "overlay"] ELSE st

\* this.animationId = requestAnimationFrame(loop)
requestAnimationFrame(st) == [st EXCEPT !.animationId = 1]

\* the callback loop of startMainLoop; the browser has taken it off the
\* animation frame queue.  ready: the camera is active and the video has
\* data
loopFrom(st, ready, results) ==
    LET s0 == [st EXCEPT !.animationId = Null]
    IN  IF ~isRunning THEN s0
        ELSE LET s1 == processFrameFrom(s0, ready, results, <<>>)
                 s2 == Then(s1, LAMBDA s : updateDetectionOverlay(s))
                 s3 == Then(s2, LAMBDA s : requestAnimationFrame(s))
             IN  Catch(s3, LAMBDA s :
                         requestAnimationFrame([s EXCEPT !.thrown = NoError,
                                                         !.caught = s.thrown]))

\* the browser runs the scheduled callback of the main loop
loop(ready, results, faults) ==
    /\ animationId # Null
    /\ LET s0 == [State EXCEPT !.faults = faults]
           hands == DetectHands(s0, results)
       IN  \E st \in {loopFrom(s0, ready, results)} :
             /\ Len(st.timers) <= MaxTimers
             /\ Commit(st)
             /\ hist' = CollectHist(HistAfter(st.events,
                                              Len(st.detected) > 0
                                                /\ ~hands.isNull,
                                              hands.hands),
                                    virtualButtons, st.timers)
             /\ lastFrame' = FrameOf(st, hands, ready)
             /\ gestureHist' = IF Len(st.detected) > 0
                               THEN GestureHistAfter(st.events,
                                                     hasPeaceSign(hands.hands))
                               ELSE gestureHist
    /\ UNCHANGED <<now, virtualButtons, elementRect, input, output,
                   sessions, captureManager, lifecycle>>

\* the handler after registerButton for the two targets
TwoTargets(options) ==
    /\ now = Epoch
    /\ elementRect = TargetRects
    /\ buttons = [o \in 1..MaxTargets |->
                    IF o = 1 THEN NewButton("capture", options["capture"])
                    ELSE IF o = 2 THEN NewButton("gallery", options["gallery"])
                    ELSE FreeSlot]
    /\ virtualButtons = <<1, 2>>
    /\ handPositions = <<>>
    /\ timers = <<>>
    /\ peaceSignStartTime = Null
    /\ isCapturingFromGesture = FALSE
    /\ isProcessing = FALSE
    /\ sessions = NoSessions
    /\ captureManager = NewCaptureManager
    /\ lifecycle = NewLifecycle
    /\ events = <<>>
    /\ lastFrame = NoFrame
    /\ hist = [o \in 1..MaxTargets |-> NewHist]
    /\ gestureHist = NewGestureHist
    /\ output = NoCall

\* the application with a second target registered next to the capture
\* button, its main loop started
InitLoop ==
    /\ TwoTargets(TargetOptions)
    /\ animationId = 1
    /\ input = NoCall

TickLoop == Tick(LoopTickMs, MaxTimeLoop)

NextLoop ==
    \/ \E ready \in BOOLEAN, results \in LoopFrames, faults \in LoopFaults :
          loop(ready, results, faults)
    \/ TimerFires
    \/ TickLoop

SpecLoop == InitLoop /\ [][NextLoop]_vars

\* the handler alone with two targets, the caller registering and
\* unregistering them between frames; input keeps the last of these calls,
\* whether its id was registered when it was made, and how many were made
IdRegistered(id) ==
    \E k \in 1..Len(virtualButtons) : buttons[virtualButtons[k]].id = id

Call(fn, id) ==
    [fn |-> fn, id |-> id, known |-> IdRegistered(id), n |-> input.n + 1]

InitTargets ==
    /\ TwoTargets(HandlerOptions)
    /\ animationId = Null
    /\ input = [fn |-> NoCall, id |-> NoCall, known |-> FALSE, n |-> 0]

TickTargets == Tick(TargetsTickMs, MaxTimeTargets)

NextTargets ==
    \/ \E id \in TargetIds :
          /\ input.n < MaxCalls
          /\ registerButton(id, HandlerOptions[id])
          /\ input' = Call("registerButton", id)
    \/ \E id \in TargetIds \cup {UnknownId} :
          /\ input.n < MaxCalls
          /\ unregisterButton(id)
          /\ input' = Call("unregisterButton", id)
    \/ \E handResults \in TargetHandLists : UpdateHandPositions(handResults)
    \/ TimerFires
    \/ TickTargets

SpecTargets == InitTargets /\ [][NextTargets]_vars

\* the variables of the interaction layer, which a pure function leaves
\* alone
progVars == <<now, virtualButtons, buttons, handPositions, timers,
              elementRect, peaceSignStartTime, isCapturingFromGesture,
              isProcessing, animationId, events, lastFrame, hist,
              gestureHist>>

\* recognizeGesture on one landmark list
InitClassify ==
    /\ Constructed
    /\ input \in LandmarkLists
    /\ output = NoCall

RecognizeGesture ==
    /\ output = NoCall
    /\ output' = recognizeGesture(input)
    /\ UNCHANGED <<input, progVars, sessions, captureManager, lifecycle>>

NextClassify == RecognizeGesture

SpecClassify == InitClassify /\ [][NextClassify]_vars

\* nothing computed or drawn yet
NotDrawn == [fn |-> NoCall, scale |-> NoCall, drawn |-> <<>>]

\* the detection overlay for one video, canvas and detected hand or face
InitOverlay ==
    /\ Constructed
    /\ input \in OverlayInputs
    /\ output = NotDrawn

Scale == getVideoScale(input.canvas, input.video)

GetVideoScale ==
    /\ output.fn = NoCall
    /\ output' = [fn |-> "getVideoScale", scale |-> Scale, drawn |-> <<>>]
    /\ UNCHANGED <<input, progVars, sessions, captureManager, lifecycle>>

DrawHandLandmarks ==
    /\ output.fn = NoCall
    /\ output' = [fn |-> "drawHandLandmarks", scale |-> Scale,
                  drawn |-> drawHandLandmarks(
                               Observation(input.landmarks, input.gesture),
                               Scale)]
    /\ UNCHANGED <<input, progVars, sessions, captureManager, lifecycle>>

DrawFaceLandmarks ==
    /\ output.fn = NoCall
    /\ output' = [fn |-> "drawFaceLandmarks", scale |-> Scale,
                  drawn |-> drawFaceLandmarks(
                               Observation(input.landmarks, input.gesture),
                               Scale)]
    /\ UNCHANGED <<input, progVars, sessions, captureManager, lifecycle>>

NextOverlay ==
    \/ GetVideoScale
    \/ DrawHandLandmarks
    \/ DrawFaceLandmarks

SpecOverlay == InitOverlay /\ [][NextOverlay]_vars

----------------------------------------------------------------------------
(* The HTTP server (src/server/app.js)                                     *)

correctPassword == "photobooth2024"

NoPassword == "undefined"

Clients == 1..MaxClients

Paths == {"/", "/app", "/app/", "/app/index.html", "/verify-password"}

Requests ==
    [method : {"GET", "POST"}, path : Paths,
     password : {correctPassword, "guess", NoPassword}, client : Clients]

LandingPage  == "../public/index.html"
PasswordPage == "../public/password.html"
AppPage      == "../public/app/index.html"

NoResponse == [status |-> 0, body |-> NoCall]

Responded(rq) == rq.res # NoResponse

sendFile(rq, file) == [rq EXCEPT !.res = [status |-> 200, body |-> file]]

json(rq, status, body) == [rq EXCEPT !.res = [status |-> status, body |-> body]]

\* req.session.authenticated; the store holds a session once it was modified
Authenticated(store, client) ==
    client \in DOMAIN store /\ store[client].authenticated

SetAuthenticated(rq) ==
    [rq EXCEPT !.sessions =
        (rq.req.client :> [authenticated |-> TRUE]) @@ rq.sessions]

\* express.static over ../public, mounted before the routes: a GET of a
\* file is answered with the file, of a directory with its index.html,
\* of a directory without the trailing slash with a redirect to it
expressStatic(rq) ==
    IF rq.req.method # "GET" THEN rq
    ELSE IF rq.req.path = "/" THEN sendFile(rq, LandingPage)
    ELSE IF rq.req.path = "/app"
    THEN [rq EXCEPT !.res = [status |-> 301, body |-> "/app/"]]
    ELSE IF rq.req.path \in {"/app/", "/app/index.html"}
    THEN sendFile(rq, AppPage)
    ELSE rq

\* the middleware; it leaves the response empty when it calls next()
requirePassword(rq) ==
    IF Authenticated(rq.sessions, rq.req.client) THEN rq
    ELSE IF rq.req.password = correctPassword THEN SetAuthenticated(rq)
    ELSE IF rq.req.method = "POST" /\ rq.req.password # NoPassword
    THEN json(rq, 401, "Invalid password")
    ELSE sendFile(rq, PasswordPage)

verifyPassword(rq) ==
    IF rq.req.password = correctPassword
    THEN json(SetAuthenticated(rq), 200, "success")
    ELSE json(rq, 401, "Invalid password")

protectedApp(rq) ==
    LET r1 == requirePassword(rq)
    IN  IF Responded(r1) THEN r1 ELSE sendFile(r1, AppPage)

\* the middleware stack in the order of the app.use and app.get calls
handle(rq) ==
    LET r1 == expressStatic(rq)
    IN  IF Responded(r1) THEN r1
        ELSE IF rq.req.method = "GET" /\ rq.req.path = "/"
        THEN sendFile(r1, LandingPage)
        ELSE IF rq.req.method = "POST" /\ rq.req.path = "/verify-password"
        THEN verifyPassword(r1)
        ELSE IF rq.req.method = "GET" /\ rq.req.path \in {"/app", "/app/"}
        THEN protectedApp(r1)
        ELSE json(r1, 404, "Not found")

\* one request of a client and the response it gets
request(req) ==
    LET rq == handle([req |-> req, sessions |-> sessions, res |-> NoResponse])
    IN  /\ sessions' = rq.sessions
        /\ input' = req
        /\ output' = [client |-> req.client, status |-> rq.res.status,
                      body |-> rq.res.body]
        /\ UNCHANGED <<progVars, captureManager, lifecycle>>

InitServer ==
    /\ Constructed
    /\ input = [method |-> NoCall, path |-> NoCall, password |-> NoPassword,
                client |-> 0]
    /\ output = [client |-> 0, status |-> 0, body |-> NoCall]

NextServer == \E req \in Requests : request(req)

SpecServer == InitServer /\ [][NextServer]_vars

----------------------------------------------------------------------------
(* PhotoCaptureManager.capturePhoto and the life cycle of the application  *)

\* who asks for a capture: the virtual button, the gesture timer, the UI
\* button
Requesters == {"handleButtonPress", "checkPeaceSignGesture", "click"}

CaptureEvent(type) == [type |-> type]

\* try ... finally of capturePhoto: the call that awaited as calls[i] ends
finallyCapture(cm, i) ==
    [cm EXCEPT !.isCapturing = FALSE, !.calls = RemoveAt(cm.calls, i)]

\* PhotoCaptureManager.capturePhoto, up to its first await
capturePhoto(from) ==
    /\ lifecycle.awaiting = {}
    /\ input' = [fn |-> "capturePhoto", from |-> from]
    /\ IF captureManager.isCapturing
       THEN /\ output' = "null"
            /\ events' = <<CaptureEvent("warn")>>
            /\ UNCHANGED captureManager
       ELSE /\ captureManager.started < MaxCaptures
            /\ output' = "promise"
            /\ events' = <<CaptureEvent("onCaptureStart")>>
            /\ captureManager' =
                  [captureManager EXCEPT
                     !.isCapturing = TRUE,
                     !.started = @ + 1,
                     !.calls = Append(@, "createSession")]
    /\ UNCHANGED <<now, virtualButtons, buttons, handPositions, timers,
                   elementRect, peaceSignStartTime, isCapturingFromGesture,
                   isProcessing, animationId, lastFrame, hist, gestureHist,
                   sessions, lifecycle>>

\* the promise that call i of capturePhoto awaits is fulfilled (ok) or
\* rejected, and the call runs on to its next await or to its end
settle(i, ok) ==
    /\ lifecycle.awaiting = {}
    /\ i \in 1..Len(captureManager.calls)
    /\ LET cm == captureManager
           awaited == cm.calls[i]
           failed == /\ events' = <<CaptureEvent("onCaptureError")>>
                     /\ captureManager' = finallyCapture(cm, i)
       IN  CASE awaited = "createSession" ->
                  IF ok
                  THEN /\ events' = <<CaptureEvent("showFlashEffect")>>
                       /\ captureManager' =
                             [cm EXCEPT !.currentSession = cm.created + 1,
                                        !.created = @ + 1,
                                        !.calls[i] = "delay"]
                  ELSE failed
            [] awaited = "delay" ->
                  /\ ok
                  /\ events' = <<>>
                  /\ captureManager' =
                        [cm EXCEPT !.calls[i] = "createCompositeImage"]
            [] awaited = "createCompositeImage" ->
                  IF ok /\ cm.currentSession # Null
                  THEN /\ events' = <<>>
                       /\ captureManager' =
                             [cm EXCEPT !.calls[i] = "uploadPhoto"]
                  ELSE failed
            [] awaited = "uploadPhoto" ->
                  IF ok
                  THEN /\ events' = <<CaptureEvent("onCaptureComplete")>>
                       /\ captureManager' = finallyCapture(cm, i)
                  ELSE failed
    /\ UNCHANGED <<now, virtualButtons, buttons, handPositions, timers,
                   elementRect, peaceSignStartTime, isCapturingFromGesture,
                   isProcessing, animationId, lastFrame, hist, gestureHist,
                   input, output, sessions, lifecycle>>

\* PhotoCaptureManager.destroy
destroyCaptureManager(cm) ==
    [cm EXCEPT !.currentSession = Null, !.isCapturing = FALSE]

\* VRPhotoboothApp.pause, on the fields of the application
paused(lc, id) ==
    [animationId |-> IF id # Null /\ id # 0 THEN Null ELSE id,
     lifecycle |-> [lc EXCEPT !.isRunning = FALSE,
                              !.requested = @ \ {id}]]

\* VRPhotoboothApp.destroy; like every listener it runs when no run of loop
\* is waiting to continue: processFrame has no await, so the await in loop
\* continues in the microtasks of the callback that began it
destroy ==
    /\ lifecycle.awaiting = {}
    /\ LET p == paused(lifecycle, animationId)
       IN  /\ animationId' = p.animationId
           /\ lifecycle' = [p.lifecycle EXCEPT !.isInitialized = FALSE]
    /\ captureManager' = destroyCaptureManager(captureManager)
    /\ input' = [fn |-> "destroy", from |-> "beforeunload"]
    /\ events' = <<>>
    /\ UNCHANGED <<now, virtualButtons, buttons, handPositions, timers,
                   elementRect, peaceSignStartTime, isCapturingFromGesture,
                   isProcessing, lastFrame, hist, gestureHist, output,
                   sessions>>

\* requestAnimationFrame(loop): the browser queues the callback under a
\* new id
requestFrame(lc) ==
    [lc EXCEPT !.lastId = @ + 1, !.requested = @ \cup {lc.lastId + 1}]

LifecycleCall(fn, from) ==
    /\ input' = [fn |-> fn, from |-> from]
    /\ UNCHANGED <<now, virtualButtons, buttons, handPositions, timers,
                   elementRect, peaceSignStartTime, isCapturingFromGesture,
                   isProcessing, lastFrame, hist, gestureHist, output,
                   sessions, captureManager>>

\* VRPhotoboothApp.pause, called by the visibilitychange listener when the
\* document is hidden
pause ==
    /\ lifecycle.awaiting = {}
    /\ LET p == paused(lifecycle, animationId)
       IN  /\ animationId' = p.animationId
           /\ lifecycle' = p.lifecycle
    /\ events' = <<>>
    /\ LifecycleCall("pause", "visibilitychange")

resume_whileRunning ==
    /\ lifecycle.awaiting = {}
    /\ IF lifecycle.isInitialized
       THEN /\ lifecycle.lastId < MaxFrameRequests
            /\ lifecycle' = requestFrame([lifecycle EXCEPT !.isRunning = TRUE])
            /\ animationId' = lifecycle.lastId + 1
       ELSE UNCHANGED <<lifecycle, animationId>>
    /\ events' = <<>>
    /\ LifecycleCall("resume", "visibilitychange")

\* VRPhotoboothApp.resume, called by the visibilitychange listener when the
\* document is visible again
resume ==
    /\ lifecycle.awaiting = {}
    /\ IF lifecycle.isInitialized /\ ~lifecycle.isRunning
       THEN /\ lifecycle.lastId < MaxFrameRequests
            /\ lifecycle' = requestFrame([lifecycle EXCEPT !.isRunning = TRUE])
            /\ animationId' = lifecycle.lastId + 1
       ELSE UNCHANGED <<lifecycle, animationId>>
    /\ events' = <<>>
    /\ LifecycleCall("resume", "visibilitychange")

\* the browser runs the callback loop requested under id, up to the await
\* of processFrame; ready: there is a mediaPipeHandler and the camera is
\* active, otherwise loop does not await
loopBegins(id, ready) ==
    /\ lifecycle.awaiting = {}
    /\ id \in lifecycle.requested
    /\ LET lc == [lifecycle EXCEPT !.requested = @ \ {id}]
       IN  IF ~lifecycle.isRunning
           THEN /\ lifecycle' = lc
                /\ events' = <<>>
                /\ UNCHANGED animationId
           ELSE IF ready
           THEN /\ lifecycle' = [lc EXCEPT !.awaiting = @ \cup {id}]
                /\ events' = <<CaptureEvent("processFrame")>>
                /\ UNCHANGED animationId
           ELSE /\ lifecycle.lastId < MaxFrameRequests
                /\ lifecycle' = requestFrame(lc)
                /\ animationId' = lifecycle.lastId + 1
                /\ events' = <<CaptureEvent("updateDetectionOverlay")>>
    /\ LifecycleCall("loop", id)

\* the run of loop that began under id continues after its await, by the
\* try block or, when processFrame or the overlay threw, by the catch
\* block: both request the next frame
loopContinues(id) ==
    /\ id \in lifecycle.awaiting
    /\ lifecycle.lastId < MaxFrameRequests
    /\ lifecycle' = requestFrame([lifecycle EXCEPT !.awaiting = @ \ {id}])
    /\ animationId' = lifecycle.lastId + 1
    /\ events' = <<CaptureEvent("updateDetectionOverlay")>>
    /\ LifecycleCall("loop", id)

\* the application after initialize(): the main loop is requested once
Initialized ==
    /\ now = Epoch
    /\ virtualButtons = <<>>
    /\ buttons = [o \in 1..MaxObjects |-> FreeSlot]
    /\ handPositions = <<>>
    /\ timers = <<>>
    /\ elementRect = [e \in ButtonIds |-> RectA]
    /\ peaceSignStartTime = Null
    /\ isCapturingFromGesture = FALSE
    /\ isProcessing = FALSE
    /\ animationId = 1
    /\ sessions = NoSessions
    /\ captureManager = NewCaptureManager
    /\ lifecycle = [NewLifecycle EXCEPT !.isInitialized = TRUE,
                                        !.isRunning = TRUE,
                                        !.requested = {1},
                                        !.lastId = 1]
    /\ events = <<>>
    /\ lastFrame = NoFrame
    /\ hist = [o \in 1..MaxObjects |-> NewHist]
    /\ gestureHist = NewGestureHist

InitCapture ==
    /\ Initialized
    /\ input = [fn |-> NoCall, from |-> NoCall]
    /\ output = NoCall

NextCapture ==
    \/ \E from \in Requesters : capturePhoto(from)
    \/ \E i \in 1..MaxCaptures, ok \in BOOLEAN : settle(i, ok)
    \/ destroy

SpecCapture == InitCapture /\ [][NextCapture]_vars

\* the life cycle of the application: the main loop, the visibility of the
\* document, the end of the page, and the captures that are under way
\* meanwhile
InitLifecycle ==
    /\ Initialized
    /\ input = [fn |-> NoCall, from |-> NoCall]
    /\ output = NoCall

NextLifecycle ==
    \/ pause
    \/ resume
    \/ destroy
    \/ \E id \in 1..MaxFrameRequests, ready \in BOOLEAN : loopBegins(id, ready)
    \/ \E id \in 1..MaxFrameRequests : loopContinues(id)
    \/ \E from \in Requesters : capturePhoto(from)
    \/ \E i \in 1..MaxCaptures, ok \in BOOLEAN : settle(i, ok)

SpecLifecycle == InitLifecycle /\ [][NextLifecycle]_vars

----------------------------------------------------------------------------
(* Properties of the interaction state machine (Spec)                      *)

Objects == DOMAIN buttons

PendingRelease(o) ==
    \E i \in 1..Len(timers) : timers[i].kind = "release" /\ timers[i].obj = o

\* the last step delivered a frame in which button o qualified
QualifiedInFrame(o) ==
    lastFrame # NoFrame /\ IsRegistered(o) /\ hist[o].qualSince # Null

\* the last step delivered a frame in which registered button o did not
\* qualify
LostInFrame(o) ==
    lastFrame # NoFrame /\ IsRegistered(o) /\ hist[o].qualSince = Null

\* C1: for a target with requireHold=false, the first qualifying frame
\* emits exactly one press, and no qualifying frame processed while the
\* 200 ms auto-release of a press is still pending emits another press.
C1_OnePressUntilAutoRelease ==
    [][\A o \in Objects :
          (IsRegistered(o) /\ ~buttons[o].options.requireHold
             /\ QualifiedInFrame(o)')
          => /\ PendingRelease(o) => Count(events', "press", o) = 0
             /\ (~PendingRelease(o) /\ ~buttons[o].isPressed)
                   => Count(events', "press", o) = 1]_vars

\* C2: for a target with requireHold=true and hold time H, holdProgress is
\* 1 (and a press is emitted) only when the target has qualified in every
\* processed frame since a frame at least H ms ago; a frame in which it
\* does not qualify leaves holdProgress 0 and holdStartTime null; and the
\* first qualifying frame after that starts counting at that frame's time.
C2_HoldIsContinuous ==
    /\ [](\A o \in Objects :
            (buttons[o].options.requireHold
               /\ (AtLeastOne(buttons[o].holdProgress)
                     \/ Count(ButtonEvents(events), "press", o) > 0))
            => /\ hist[o].qualSince # Null
               /\ now - hist[o].qualSince >= buttons[o].options.holdTime)
    /\ [][\A o \in Objects :
            /\ LostInFrame(o)'
                 => /\ buttons'[o].holdProgress = Zero
                    /\ buttons'[o].holdStartTime = Null
            /\ (QualifiedInFrame(o)' /\ buttons'[o].options.requireHold
                  /\ hist[o].qualSince = Null)
                 => /\ buttons'[o].holdStartTime = now'
                    /\ buttons'[o].holdProgress = Zero]_vars

\* a hold completes at a time that shows the count was started after the
\* first instant, and the press is emitted
C2_Witness ==
    \E o \in Objects :
        /\ IsRegistered(o) /\ buttons[o].options.requireHold
        /\ AtLeastOne(buttons[o].holdProgress)
        /\ Count(ButtonEvents(events), "press", o) = 1
        /\ hist[o].qualSince > Epoch

\* C3: within one uninterrupted hover episode of a target (consecutive
\* processed frames that all qualify) at most one press is emitted.
C3_OnePressPerEpisode ==
    \A o \in Objects : hist[o].episodePresses <= 1

\* C4: a release is emitted only by the auto-release, 200 ms after the
\* press it answers and not earlier, whatever frames arrive in between.
C4_ReleaseAfterDelay ==
    [][\A i \in 1..Len(ButtonEvents(events')) :
          LET e == ButtonEvents(events')[i]
          IN  e.type = "release"
              => /\ lastFrame' = NoFrame
                 /\ hist[e.obj].pressedAt # Null
                 /\ now' - hist[e.obj].pressedAt >= 200]_vars

\* C6: every change of a registered target's hovered flag from true to
\* false emits hover:leave for that target in the same step.
C6_LeaveOnEveryHoverLoss ==
    [][\A o \in Objects :
          (IsRegistered(o) /\ IsRegistered(o)'
             /\ buttons[o].isHovered /\ ~buttons'[o].isHovered)
          => Count(ButtonEvents(events'), "hover:leave", o) = 1]_vars

\* C10: after unregisterButton(id) no event is emitted for the target and
\* no pending auto-release timer of it changes its state.
C10_NoEventAfterUnregister ==
    [][/\ \A i \in 1..Len(ButtonEvents(events')) :
            IsRegistered(ButtonEvents(events')[i].obj)
       /\ \A o \in Objects :
            (~IsRegistered(o) /\ PendingRelease(o) /\ PendingRelease(o)')
            => buttons'[o] = buttons[o]]_vars

\* the step runs the release timeout that was pending for object o
ReleaseTimerStep(o) ==
    /\ Len(timers') < Len(timers)
    /\ timers[NextTimer].kind = "release"
    /\ timers[NextTimer].obj = o

\* C11: a release timeout whose activation is no longer the current one
\* of its target (the pressed flag was already cleared before it fires,
\* or the target was pressed again after the timeout was scheduled) is
\* discarded: it emits nothing and leaves the target's fields alone.
C11_StaleReleaseDiscarded ==
    [][\A o \in Objects :
          (/\ ReleaseTimerStep(o)
           /\ IsRegistered(o)
           /\ \/ ~buttons[o].isPressed
              \/ hist[o].pressedAt > timers[NextTimer].due - 200)
          => /\ events' = <<>>
             /\ buttons'[o] = buttons[o]]_vars

\* C23: a frame whose hand list is missing or empty, or all of whose
\* hands have fewer than 21 landmarks, raises nothing, leaves no pointer,
\* and every registered target is then not hovered with its hold reset;
\* in any frame a hand with fewer than 21 landmarks gives no pointer.
C23_MalformedHandsGiveNoPointer ==
    lastFrame # NoFrame
    => /\ lastFrame.error = NoError
       /\ Len(handPositions) =
             Cardinality({i \in 1..Len(lastFrame.tips) :
                             lastFrame.tips[i].n >= 21})
       /\ (\A i \in 1..Len(lastFrame.tips) : lastFrame.tips[i].n < 21)
            => \A o \in Objects :
                  IsRegistered(o)
                  => /\ ~buttons[o].isHovered
                     /\ buttons[o].holdStartTime = Null
                     /\ buttons[o].holdProgress = Zero

\* a hovered target lost its hover in a frame whose only hand has 20
\* landmarks and its index fingertip on the target
C23_Witness ==
    /\ lastFrame.hands = 1 /\ lastFrame.tips[1].n = 20
    /\ \E o \in Objects :
          /\ IsRegistered(o) /\ ~buttons[o].isHovered
          /\ ToCentre(lastFrame.tips[1].tip, o) = 0
          /\ Count(ButtonEvents(events), "hover:leave", o) = 1

----------------------------------------------------------------------------
(* Properties of the gesture hold timer (SpecGesture)                      *)

Counting == peaceSignStartTime # Null /\ ~isCapturingFromGesture

Shown(evs) ==
    Cardinality({i \in 1..Len(evs) : evs[i].type = "showGestureTimer"})

\* C7: the capture is invoked only when a hand has shown peace in every
\* processed frame for at least 3000 ms; a frame without peace while the
\* timer is counting clears the start time without capturing; and the
\* next frame with peace starts counting at that frame's time.
C7_CaptureNeedsFullHold ==
    /\ [](Captures(events) > 0
            => /\ gestureHist.peaceSince # Null
               /\ now - gestureHist.peaceSince >= 3000)
    /\ [][/\ (Counting /\ lastFrame' # NoFrame /\ ~lastFrame'.peace)
               => /\ peaceSignStartTime' = Null
                  /\ Captures(events') = 0
          /\ (peaceSignStartTime = Null /\ ~isCapturingFromGesture
                /\ lastFrame' # NoFrame /\ lastFrame'.peace)
               => peaceSignStartTime' = now']_vars

\* the capture fires on a hold that began after an earlier interruption
C7_Witness ==
    /\ Captures(events) = 1
    /\ gestureHist.peaceSince > Epoch
    /\ now - gestureHist.peaceSince >= 3000

\* C8: a completed hold invokes the capture exactly once; for the next
\* 2000 ms the symbol is ignored (no countdown, no capture); and the next
\* capture needs a full 3000 ms hold begun after those 2000 ms.
C8_CooldownThenFreshHold ==
    /\ [](Captures(events) <= 1)
    /\ [][gestureHist.lastCaptureAt # Null
            => /\ now' - gestureHist.lastCaptureAt < 2000
                    => (Captures(events') = 0 /\ Shown(events') = 0)
               /\ Captures(events') > 0
                    => now' - gestureHist.lastCaptureAt >= 2000 + 3000]_vars

\* a second capture fires after the cooldown of the first
C8_Witness ==
    /\ Captures(events) = 1
    /\ gestureHist.captures = 2

----------------------------------------------------------------------------
(* End-to-end properties through processFrame (SpecApp)                    *)

\* C5: when the detector reports zero hands for a frame, no target is
\* hovered, and no hold is running, at the end of that frame's processing.
C5_NoHandsClearsHover ==
    (lastFrame # NoFrame /\ lastFrame.hands = 0)
    => \A o \in Objects :
          IsRegistered(o)
          => /\ ~buttons[o].isHovered
             /\ buttons[o].holdStartTime = Null
             /\ buttons[o].holdProgress = Zero

\* C9: a frame in which no hand shows peace, the detector reporting no
\* hand included, returns a counting timer to idle; time without a
\* detected hand never counts toward the 3000 ms hold.
C9_NoPeaceFrameResetsTimer ==
    /\ (lastFrame # NoFrame /\ ~lastFrame.peace /\ ~isCapturingFromGesture)
          => peaceSignStartTime = Null
    /\ Captures(events) > 0
          => /\ gestureHist.peaceSince # Null
             /\ now - gestureHist.peaceSince >= 3000

\* where the user sees a detector-space point on the mirrored video when
\* source and destination have the same aspect: the crop window is the
\* whole frame and reconciliation is the horizontal flip
OnScreen(tip) == [x |-> 1000 - tip.x, y |-> tip.y]

\* C15: after a frame with hands, a target is hovered exactly when the
\* on-screen (mirrored) position of some hand's index fingertip is within
\* the threshold of the normalized centre of the target's bounds.
C15_HoverUsesScreenPosition ==
    (lastFrame # NoFrame /\ lastFrame.hands > 0)
    => \A o \in Objects :
          IsRegistered(o)
          => (buttons[o].isHovered
                <=> \E i \in 1..Len(lastFrame.tips) :
                       /\ lastFrame.tips[i].n >= 21
                       /\ ToCentre(OnScreen(lastFrame.tips[i].tip), o)
                            < buttons[o].options.threshold
                                * buttons[o].options.threshold)

----------------------------------------------------------------------------
(* Properties of the gesture classification (SpecClassify)                 *)

GestureSymbols == {"point", "peace", "open", "fist", "thumbs_up", "unknown"}

NamedPatterns == {"point", "peace", "open", "fist", "thumbs_up"}

\* finger f of the classified list is extended: its tip is strictly above
\* its joint
Extended(f) == input.tipY[f] < input.pipY[f]

\* the five named finger patterns
MatchesPattern(p) ==
    CASE p = "point" ->
           Extended(2) /\ ~Extended(3) /\ ~Extended(4) /\ ~Extended(5)
      [] p = "peace" ->
           Extended(2) /\ Extended(3) /\ ~Extended(4) /\ ~Extended(5)
      [] p = "open" -> \A f \in 1..5 : Extended(f)
      [] p = "fist" -> \A f \in 1..5 : ~Extended(f)
      [] p = "thumbs_up" ->
           Extended(1) /\ Extended(2) /\ ~Extended(3) /\ ~Extended(4)
             /\ ~Extended(5)

Classified == output # NoCall

\* C12: on a 21-landmark list whose flags (tip.y < joint.y, strictly)
\* match exactly one named pattern the result is that pattern, on one
\* matching none it is unknown, and every result is one of the six
\* symbols.
C12_ClassifiesByPattern ==
    Classified
      => /\ output \in GestureSymbols
         /\ input.n = 21
              => LET matched == {p \in NamedPatterns : MatchesPattern(p)}
                 IN  /\ Cardinality(matched) = 1 => output \in matched
                     /\ matched = {} => output = "unknown"

\* a hand whose ring and pinky tips are level with their joints, so
\* retracted, is classified peace
C12_Witness ==
    /\ Classified /\ input.n = 21 /\ output = "peace"
    /\ input.tipY[4] = input.pipY[4]
    /\ input.tipY[5] = input.pipY[5]

\* C13: index extended with middle, ring and pinky retracted is point
\* whatever the thumb does, and thumbs_up is never returned.
C13_PointBeforeThumbsUp ==
    Classified
      => /\ output # "thumbs_up"
         /\ (input.n = 21 /\ Extended(2) /\ ~Extended(3) /\ ~Extended(4)
               /\ ~Extended(5))
              => output = "point"

\* thumb and index extended, the other three retracted: point
C13_Witness ==
    /\ Classified /\ input.n = 21 /\ output = "point"
    /\ Extended(1) /\ Extended(2)
    /\ ~Extended(3) /\ ~Extended(4) /\ ~Extended(5)

\* C14: a landmark list that is missing or whose length is not exactly 21
\* is classified unknown, and the call does not throw.
C14_WrongLengthIsUnknown ==
    (Classified /\ (input.n = Null \/ input.n # 21)) => output = "unknown"

\* a list of 22 landmarks with the flags of a point
C14_Witness ==
    /\ Classified /\ input.n = 22 /\ output = "unknown"
    /\ Extended(2) /\ ~Extended(3) /\ ~Extended(4) /\ ~Extended(5)

----------------------------------------------------------------------------
(* Properties of the detection overlay (SpecOverlay)                       *)

Drew == output.fn \in {"drawHandLandmarks", "drawFaceLandmarks"}

\* crop-normalized coordinates of landmark i (from 0) of the drawn list
Nx(i) == RDiv(RSub(Rat(input.landmarks[i + 1].x, 1000), output.scale.cropX),
              output.scale.cropWidth)

Ny(i) == RDiv(RSub(Rat(input.landmarks[i + 1].y, 1000), output.scale.cropY),
              output.scale.cropHeight)

InUnit(r) == ~RLt(r, Zero) /\ ~RLt(One, r)

VisibleLandmark(i) == InUnit(Nx(i)) /\ InUnit(Ny(i))

\* (1 - nx) * outputWidth
Mirrored(nx) == RMul(RSub(One, nx), RInt(input.canvas.width))

DotsOf(i) ==
    {k \in 1..Len(output.drawn) :
        output.drawn[k].kind = "dot" /\ output.drawn[k].src = <<i>>}

Is1280x720Into800x800 ==
    /\ input.video = Video(1280, 720)
    /\ input.canvas = [width |-> 800, height |-> 800]

\* C16: for positive sizes getVideoScale returns the whole source when the
\* aspects differ by at most 0.01; for a wider source cropWidth =
\* destAspect / sourceAspect, cropX = (1 - cropWidth) / 2, cropY = 0,
\* cropHeight = 1; for a taller source the same on the vertical axis.
\* 1280x720 into 800x800 gives cropWidth 0.5625 and cropX 0.21875.
C16_CropWindow ==
    (output.fn = "getVideoScale" /\ input.video # NoVideo
       /\ input.video.videoWidth > 0 /\ input.video.videoHeight > 0)
    => LET sourceAspect == Rat(input.video.videoWidth,
                               input.video.videoHeight)
           destAspect == Rat(input.canvas.width, input.canvas.height)
           sc == output.scale
       IN  /\ ~RLt(Rat(1, 100), RAbs(RSub(sourceAspect, destAspect)))
                => /\ sc.cropX = Zero /\ sc.cropY = Zero
                   /\ sc.cropWidth = One /\ sc.cropHeight = One
           /\ (RLt(Rat(1, 100), RAbs(RSub(sourceAspect, destAspect)))
                 /\ RLt(destAspect, sourceAspect))
                => /\ sc.cropWidth = RDiv(destAspect, sourceAspect)
                   /\ sc.cropX = RDiv(RSub(One, sc.cropWidth), RInt(2))
                   /\ sc.cropY = Zero /\ sc.cropHeight = One
           /\ (RLt(Rat(1, 100), RAbs(RSub(sourceAspect, destAspect)))
                 /\ RLt(sourceAspect, destAspect))
                => /\ sc.cropHeight = RDiv(sourceAspect, destAspect)
                   /\ sc.cropY = RDiv(RSub(One, sc.cropHeight), RInt(2))
                   /\ sc.cropX = Zero /\ sc.cropWidth = One
           /\ Is1280x720Into800x800
                => /\ sc.cropWidth = Rat(5625, 10000)
                   /\ sc.cropX = Rat(21875, 100000)

\* the mapping of 1280x720 into 800x800 has been computed and crops the
\* sides
C16_Witness ==
    /\ output.fn = "getVideoScale" /\ Is1280x720Into800x800
    /\ output.scale.cropWidth = Rat(9, 16)
    /\ output.scale.cropX = Rat(7, 32)

\* C17: a landmark gets a dot exactly when both crop-normalized
\* coordinates lie in [0,1], and the dot is at ((1-nx)*outputWidth,
\* ny*outputHeight); for 1280x720 into 800x800 the point (0.5,0.5) is
\* drawn at (400,400) and a landmark with x = 0.05 is not drawn.
C17_MappedIffVisible ==
    Drew
    => \A i \in 0..(Len(input.landmarks) - 1) :
          /\ VisibleLandmark(i) <=> DotsOf(i) # {}
          /\ \A k \in DotsOf(i) :
                output.drawn[k].p =
                    Point(Mirrored(Nx(i)),
                          RMul(Ny(i), RInt(input.canvas.height)))
          /\ (Is1280x720Into800x800
                /\ input.landmarks[i + 1] = [x |-> 500, y |-> 500])
               => \E k \in DotsOf(i) :
                     output.drawn[k].p = Point(RInt(400), RInt(400))
          /\ (Is1280x720Into800x800 /\ input.landmarks[i + 1].x = 50)
               => DotsOf(i) = {}

\* under 1280x720 into 800x800 a hand with landmarks (0.5,0.5) and
\* (0.05,0.5) has been drawn: one dot, at the centre
C17_Witness ==
    /\ output.fn = "drawHandLandmarks" /\ Is1280x720Into800x800
    /\ input.landmarks = <<[x |-> 500, y |-> 500], [x |-> 50, y |-> 500]>>
    /\ \E k \in DotsOf(0) :
          output.drawn[k].p = Point(RInt(400), RInt(400))
    /\ DotsOf(1) = {}

\* C18: every primitive placed on the canvas uses the mirrored x: dots,
\* both ends of a connection, the face box (the mirror image of its
\* extent) and the anchor of the gesture label.
C18_EverythingMirrored ==
    Drew
    => \A k \in 1..Len(output.drawn) :
          LET prim == output.drawn[k]
              bbox == calculateBoundingBox(input.landmarks)
              boxNx == RDiv(RSub(Rat(bbox.x, 1000), output.scale.cropX),
                            output.scale.cropWidth)
              boxNw == RDiv(Rat(bbox.width, 1000), output.scale.cropWidth)
          IN  /\ prim.kind = "dot" => prim.p.x = Mirrored(Nx(prim.src[1]))
              /\ prim.kind = "line"
                   => /\ prim.p.x = Mirrored(Nx(prim.src[1]))
                      /\ prim.q.x = Mirrored(Nx(prim.src[2]))
              /\ prim.kind = "rect"
                   => prim.p.x = Mirrored(RAdd(boxNx, boxNw))
              /\ prim.kind = "label" => prim.p.x = Mirrored(boxNx)

\* C19: nothing is drawn from a landmark outside the crop window; a
\* connection is drawn only when both of its ends are visible.
C19_InvisibleLandmarksSkipped ==
    Drew
    => \A k \in 1..Len(output.drawn) :
          \A j \in 1..Len(output.drawn[k].src) :
              VisibleLandmark(output.drawn[k].src[j])

----------------------------------------------------------------------------
(* The countdown of the gesture hold timer (SpecGesture)                   *)

\* C27: a countdown value is shown only while the timer is counting and
\* less than 3000 ms have elapsed since it started; the value is
\* ceil((3000 - elapsed) / 1000), one of 1, 2 and 3, and it is never
\* greater than the value shown before it in the same counting episode.
C27_CountdownFollowsFormula ==
    /\ [](ShownIn(events) # Null
            => /\ Counting
               /\ now - peaceSignStartTime < 3000
               /\ ShownIn(events) * 1000 >= 3000 - (now - peaceSignStartTime)
               /\ (ShownIn(events) - 1) * 1000
                     < 3000 - (now - peaceSignStartTime)
               /\ ShownIn(events) \in {1, 2, 3})
    /\ [][(ShownIn(events') # Null /\ gestureHist.shown # Null)
            => ShownIn(events') <= gestureHist.shown]_vars

\* the countdown went from 3 to 1 in one episode: the frame shows 1 and
\* the episode has lasted more than 2000 ms
C27_Witness ==
    /\ ShownIn(events) = 1
    /\ gestureHist.shown = 1
    /\ now - peaceSignStartTime > 2000
    /\ gestureHist.captures > 0

----------------------------------------------------------------------------
(* Properties of the handler with two targets (SpecTargets)                *)

\* the pointers of the last frame within the radius of target o
Within(o) ==
    {i \in 1..Len(handPositions) :
        ToCentre(handPositions[i].position, o)
          < buttons[o].options.threshold * buttons[o].options.threshold}

\* C24: the hand in the payload of hover:enter and press is, among the
\* hands whose pointer is within the radius of the target in that frame,
\* one at the smallest distance from its centre; and the target is
\* hovered as soon as any hand is within the radius.
C24_PayloadIsClosestHand ==
    /\ \A k \in 1..Len(events) :
          events[k].type \in {"hover:enter", "press"}
          => \E i \in Within(events[k].obj) :
                /\ handPositions[i] = events[k].hand
                /\ \A j \in Within(events[k].obj) :
                      ToCentre(handPositions[i].position, events[k].obj)
                        <= ToCentre(handPositions[j].position, events[k].obj)
    /\ lastFrame # NoFrame
          => \A o \in Objects :
                (IsRegistered(o) /\ Within(o) # {}) => buttons[o].isHovered

\* two hands are within the radius of a target, the second of the list
\* the closer, and hover:enter was given the second
C24_Witness ==
    \E k \in 1..Len(events) :
        /\ events[k].type = "hover:enter"
        /\ Cardinality(Within(events[k].obj)) = 2
        /\ events[k].hand.handIndex = 1
        /\ ToCentre(handPositions[2].position, events[k].obj)
             < ToCentre(handPositions[1].position, events[k].obj)

\* C25: a press is emitted for a target only in a frame in which a hand
\* is within its radius, so its hovered flag is set when the press is
\* emitted; a target that is not hovered gets no press.
C25_PressOnlyWhenHovered ==
    \A k \in 1..Len(events) :
        events[k].type = "press"
        => /\ lastFrame # NoFrame
           /\ IsRegistered(events[k].obj)
           /\ buttons[events[k].obj].isHovered
           /\ Within(events[k].obj) # {}
           /\ events[k].hand # NoHand

\* the target that needs a hold was pressed in a frame that left it
\* hovered while the other target, with no hand near, was left alone
C25_Witness ==
    \E k \in 1..Len(events) :
        /\ events[k].type = "press"
        /\ buttons[events[k].obj].options.requireHold
        /\ buttons[events[k].obj].isHovered
        /\ \E p \in Objects :
              /\ IsRegistered(p) /\ p # events[k].obj
              /\ Within(p) = {} /\ ~buttons[p].isHovered /\ ~buttons[p].isPressed

Idle(o) ==
    /\ ~buttons[o].isHovered /\ ~buttons[o].isPressed
    /\ buttons[o].holdStartTime = Null /\ buttons[o].holdProgress = Zero

\* the types of the events the step emitted for target o
EventsOf(o) ==
    {events[k].type : k \in {i \in 1..Len(events) : events[i].obj = o}}

\* the step is a registerButton or unregisterButton call named fn
Called(fn) == input'.n = input.n + 1 /\ input'.fn = fn

\* C26: what a frame does to a target depends on that target and the
\* hands near it alone, whatever happens to the other targets in the same
\* frame: an idle target with no hand near stays idle and gets no event, a
\* hovered target with a hand near stays hovered and keeps the start of
\* its hold, a target gets hover:enter when a hand comes near and loses
\* its hover and its hold when the last one goes; and unregisterButton
\* leaves every other target registered and unchanged.
C26_TargetsAreIndependent ==
    [][/\ lastFrame' # NoFrame
            => \A o \in Objects :
                  IsRegistered(o)
                  => /\ (Idle(o) /\ Within(o)' = {})
                          => Idle(o)' /\ EventsOf(o)' = {}
                     /\ (buttons[o].isHovered /\ Within(o)' # {})
                          => /\ buttons'[o].isHovered
                             /\ EventsOf(o)' \subseteq {"press"}
                             /\ buttons[o].holdStartTime # Null
                                  => buttons'[o].holdStartTime
                                       = buttons[o].holdStartTime
                     /\ (~buttons[o].isHovered /\ Within(o)' # {})
                          => /\ buttons'[o].isHovered
                             /\ "hover:enter" \in EventsOf(o)'
                             /\ "hover:leave" \notin EventsOf(o)'
                     /\ (buttons[o].isHovered /\ Within(o)' = {})
                          => /\ ~buttons'[o].isHovered
                             /\ buttons'[o].holdStartTime = Null
                             /\ buttons'[o].holdProgress = Zero
                             /\ "press" \notin EventsOf(o)'
       /\ Called("unregisterButton")
            => \A o \in Objects :
                  (IsRegistered(o) /\ buttons[o].id # input'.id)
                  => IsRegistered(o)' /\ buttons'[o] = buttons[o]
      ]_vars

\* a frame took the hover from one target while another, hovered since
\* an earlier frame, stayed hovered with the start of its hold kept
C26_Witness ==
    \E o, p \in Objects :
        /\ o # p /\ IsRegistered(o) /\ IsRegistered(p)
        /\ "hover:leave" \in EventsOf(p)
        /\ buttons[o].isHovered
        /\ buttons[o].holdStartTime # Null
        /\ buttons[o].holdStartTime < now

\* the registry as its users see it: the targets in Map order
Registry == [k \in 1..Len(virtualButtons) |-> buttons[virtualButtons[k]]]

\* C28: registerButton with an id that is already registered is rejected
\* by the call itself: the registry and the state of its targets are what
\* they were before the call.
C28_DuplicateIdIsRejected ==
    [][(Called("registerButton") /\ input'.known)
         => Registry' = Registry]_vars

\* C29: unregisterButton with an id that is not registered does nothing:
\* no callback is called, and the registry, every target in it, the
\* pending timeouts and the stored hand positions are what they were.
C29_UnknownIdIsNoOp ==
    [][(Called("unregisterButton") /\ ~input'.known)
         => /\ virtualButtons' = virtualButtons
            /\ buttons' = buttons
            /\ timers' = timers
            /\ handPositions' = handPositions
            /\ events' = <<>>]_vars

\* the last call was unregisterButton with an id that was not registered,
\* and the target that is registered is still hovered and pressed
C29_Witness ==
    /\ input.fn = "unregisterButton" /\ ~input.known
    /\ ~IdRegistered(input.id)
    /\ lastFrame = NoFrame /\ events = <<>>
    /\ \E o \in Objects :
          IsRegistered(o) /\ buttons[o].isHovered /\ buttons[o].isPressed

----------------------------------------------------------------------------
(* Properties of the main loop when something throws (SpecLoop)            *)

\* the index fingertip of some hand of the last frame is within the
\* threshold of the centre of the element of target o
PointerWithin(o) ==
    \E i \in 1..Len(lastFrame.tips) :
        /\ lastFrame.tips[i].n >= 21
        /\ ToCentre(lastFrame.tips[i].tip, o)
             < buttons[o].options.threshold * buttons[o].options.threshold

\* C21: when a hover or press callback of one target throws in a frame,
\* every registered target has still been updated from that frame (it is
\* hovered exactly when a pointer is within its radius) and the gesture
\* timer has processed it (it counts exactly when the frame has a peace
\* sign).
C21_TargetFailureIsIsolated ==
    (lastFrame.hands > 0
       /\ lastFrame.error \in {"hover:enter", "hover:leave", "press"})
    => /\ \A o \in Objects :
             IsRegistered(o) => (buttons[o].isHovered <=> PointerWithin(o))
       /\ ~isCapturingFromGesture
             => (peaceSignStartTime # Null <=> lastFrame.peace)

\* C22: whatever throws during a run of the main loop (the hand
\* detector, a detection handler, the error callback, the overlay),
\* isProcessing is false again when the run ends and the next run is
\* scheduled, so every run that offers a ready video has its frame
\* accepted.
C22_ErrorsDoNotStopTheLoop ==
    /\ [](/\ isProcessing = FALSE
          /\ animationId # Null
          /\ lastFrame.offered => lastFrame.detections = 1)
    /\ [][(lastFrame.error # NoError /\ lastFrame'.offered)
            => lastFrame'.detections = 1]_vars

\* the press callback threw and then the error callback threw as well:
\* the frame was accepted, the flag is clear and the loop is scheduled
C22_Witness ==
    /\ lastFrame.error = "onError" /\ lastFrame.detections = 1
    /\ \E k \in 1..Len(events) : events[k].type = "press"
    /\ isProcessing = FALSE
    /\ animationId # Null

----------------------------------------------------------------------------
(* Properties of processFrame under re-entrant calls (SpecFrames)          *)

\* C20: a processFrame call made while another is running is dropped: the
\* detector runs once per step, for the accepted frame only; every hover
\* or press reported is for a hand of the accepted frame, the countdown is
\* shown only when the accepted frame has a peace sign, and isProcessing
\* is clear again when the step ends.
C20_BusyFrameIsDropped ==
    /\ isProcessing = FALSE
    /\ lastFrame.detections <= 1
    /\ lastFrame.dropped > 0
         => /\ lastFrame.detections = 1
            /\ \A k \in 1..Len(events) :
                  /\ events[k].type \in {"hover:enter", "press"}
                       => \E i \in 1..Len(lastFrame.tips) :
                             lastFrame.tips[i].tip = events[k].hand.position
                  /\ events[k].type = "showGestureTimer" => lastFrame.peace

\* a listener called processFrame with a hand over the button while the
\* frame of a far hand without peace sign was being processed: the call
\* was dropped and nothing was reported
C20_Witness ==
    /\ lastFrame.dropped = 1 /\ lastFrame.detections = 1
    /\ lastFrame.hands = 1 /\ ~lastFrame.peace
    /\ events = <<>>
    /\ \E o \in Objects : IsRegistered(o) /\ ~buttons[o].isHovered

----------------------------------------------------------------------------
(* Properties of the HTTP server (SpecServer)                              *)

\* C30: a response that carries the main application page goes only to a
\* client whose session is authenticated, that is one that has sent the
\* correct password in this request or an earlier one.
C30_AppPageNeedsPassword ==
    output.body = AppPage => Authenticated(sessions, output.client)

----------------------------------------------------------------------------
(* Hover and the layout of the page (SpecFrames)                           *)

\* C31: after a frame with at least one hand of 21 or more landmarks,
\* every registered target holds the bounds its element has in that frame
\* and is hovered exactly when some pointer of the frame is closer than
\* its threshold to the centre of these bounds.
C31_HoverFollowsThisFrame ==
    (lastFrame.hands # Null
       /\ \E i \in 1..Len(lastFrame.tips) : lastFrame.tips[i].n >= 21)
    => \A o \in Objects :
          IsRegistered(o)
          => /\ buttons[o].bounds = elementRect[buttons[o].element]
             /\ buttons[o].isHovered
                  <=> \E i \in 1..Len(handPositions) :
                         calculateDistance(handPositions[i].position,
                                           buttons[o].bounds)
                           < buttons[o].options.threshold
                               * buttons[o].options.threshold

\* the element has moved away from the place it was registered at; the
\* frame has a pointer within the radius of the old place and the target,
\* hovered before, is not hovered
C31_Witness ==
    /\ lastFrame.hands # Null /\ Len(handPositions) > 0
    /\ \E o \in Objects :
          /\ IsRegistered(o) /\ ~buttons[o].isHovered
          /\ buttons[o].bounds = RectB
          /\ Count(ButtonEvents(events), "hover:leave", o) = 1
          /\ \E i \in 1..Len(handPositions) :
                calculateDistance(handPositions[i].position, RectA)
                  < buttons[o].options.threshold
                      * buttons[o].options.threshold

----------------------------------------------------------------------------
(* The cooldown of the gesture hold timer (SpecGestureFair)                *)

CooldownPending ==
    {i \in 1..Len(timers) : timers[i].kind = "cooldown"}

\* the cooldown that began at the last capture can still run out before
\* the horizon of the model
CooldownFits ==
    gestureHist.lastCaptureAt + CooldownDelayMs + GestureTickMs
      <= Epoch + MaxTimeGesture

\* C32: once the gesture timer has fired it returns to idle: the capturing
\* flag is cleared and the start time reset by the timeout 2000 ms after
\* the firing, whatever frames arrive in between; it never stays in
\* cooldown.
C32_CooldownAlwaysEnds ==
    /\ [](isCapturingFromGesture
            => \E i \in CooldownPending :
                  timers[i].due = gestureHist.lastCaptureAt + CooldownDelayMs)
    /\ [][(isCapturingFromGesture /\ ~isCapturingFromGesture')
            => /\ peaceSignStartTime' = Null
               /\ now' >= gestureHist.lastCaptureAt + CooldownDelayMs
               /\ now' < gestureHist.lastCaptureAt + CooldownDelayMs
                           + GestureTickMs]_vars
    /\ (isCapturingFromGesture /\ CooldownFits)
          ~> (~isCapturingFromGesture /\ peaceSignStartTime = Null)

\* the cooldown has run out after frames with and without the symbol
C32_Witness ==
    /\ gestureHist.lastCaptureAt # Null
    /\ now >= gestureHist.lastCaptureAt + CooldownDelayMs
    /\ ~isCapturingFromGesture
    /\ peaceSignStartTime = Null
    /\ CooldownPending = {}
    /\ lastFrame = NoFrame

----------------------------------------------------------------------------
(* Press and release of one target object (Spec)                           *)

\* the press and release events of target object o, in the order emitted
PressEvents(evs, o) ==
    SelectSeq(evs, LAMBDA e : e.type \in {"press", "release"} /\ e.obj = o)

\* evs alternates between press and release, beginning with press when the
\* pressed flag is false and with release when it is true
RECURSIVE Alternates(_, _)
Alternates(evs, pressed) ==
    IF evs = <<>>
    THEN TRUE
    ELSE IF Head(evs).type = "press"
         THEN ~pressed /\ Alternates(Tail(evs), TRUE)
         ELSE pressed /\ Alternates(Tail(evs), FALSE)

\* the pressed flag after evs
PressedAfter(evs, pressed) ==
    IF evs = <<>> THEN pressed ELSE evs[Len(evs)].type = "press"

\* C33: for each target object press and release alternate, starting with
\* press: a press is emitted only while the pressed flag is false and a
\* release only while it is true, whatever frames, empty frames and
\* auto-release timeouts interleave.
C33_PressAndReleaseAlternate ==
    [][\A o \in Objects :
          /\ Alternates(PressEvents(events', o), buttons[o].isPressed)
          /\ buttons'[o].isPressed
               = (/\ buttons'[o] # FreeSlot
                  /\ PressedAfter(PressEvents(events', o),
                                  buttons[o].isPressed))
          /\ (buttons[o] = FreeSlot /\ buttons'[o] # FreeSlot)
               => ~buttons'[o].isPressed]_vars

\* a second press of the same object, after the release of the first
C33_Witness ==
    \E o \in Objects :
       /\ buttons[o].isPressed
       /\ Len(PressEvents(events, o)) = 1
       /\ PressEvents(events, o)[1].type = "press"
       /\ hist[o].episodePresses >= 2

----------------------------------------------------------------------------
(* Properties of PhotoCaptureManager (SpecCapture)                         *)

\* the step was a call of capturePhoto
CaptureCalled ==
    /\ events # <<>>
    /\ events[1].type \in {"warn", "onCaptureStart"}

\* C34: at most one photo capture is in progress at any time, whoever asks
\* for it: a capturePhoto call made while isCapturing is true returns null
\* without onCaptureStart and without a session, and isCapturing is false
\* again after every capture, completed or failed.
C34_OneCaptureAtATime ==
    /\ [](Len(captureManager.calls) <= 1)
    /\ [][/\ (captureManager.isCapturing /\ CaptureCalled')
               => /\ output' = "null"
                  /\ events' = <<CaptureEvent("warn")>>
                  /\ captureManager' = captureManager
          /\ Len(captureManager'.calls) < Len(captureManager.calls)
               => ~captureManager'.isCapturing]_vars

----------------------------------------------------------------------------
(* The hold state of a target (Spec)                                       *)

----------------------------------------------------------------------------
(* The capturing flag of the gesture hold timer (SpecGesture)              *)

\* C36: the capturing flag is true exactly when one cooldown timeout is
\* pending; at most one cooldown timeout is pending at any time; and while
\* the flag is true the start time is set.
C36_FlagMeansCooldownPending ==
    /\ Cardinality(CooldownPending) <= 1
    /\ isCapturingFromGesture <=> Cardinality(CooldownPending) = 1
    /\ isCapturingFromGesture => peaceSignStartTime # Null

\* a frame with the symbol arrives during the cooldown and is ignored
C36_Witness ==
    /\ isCapturingFromGesture
    /\ Cardinality(CooldownPending) = 1
    /\ lastFrame # NoFrame
    /\ lastFrame.peace
    /\ now > gestureHist.lastCaptureAt
    /\ peaceSignStartTime # Null

----------------------------------------------------------------------------
(* The visible window of the source frame (SpecOverlay)                    *)

\* C37: for positive source and destination sizes the mapping returned by
\* getVideoScale has 0 < cropWidth <= 1 and 0 < cropHeight <= 1, at least
\* one of them equal to 1, cropX = (1 - cropWidth) / 2 >= 0 and
\* cropY = (1 - cropHeight) / 2 >= 0: the visible window is centred and
\* lies inside the unit square.
C37_WindowInsideUnitSquare ==
    (output.fn = "getVideoScale" /\ input.video # NoVideo
       /\ input.video.videoWidth > 0 /\ input.video.videoHeight > 0)
    => LET sc == output.scale
       IN  /\ RLt(Zero, sc.cropWidth) /\ ~RLt(One, sc.cropWidth)
           /\ RLt(Zero, sc.cropHeight) /\ ~RLt(One, sc.cropHeight)
           /\ sc.cropWidth = One \/ sc.cropHeight = One
           /\ sc.cropX = RDiv(RSub(One, sc.cropWidth), RInt(2))
           /\ sc.cropY = RDiv(RSub(One, sc.cropHeight), RInt(2))
           /\ ~RLt(sc.cropX, Zero)
           /\ ~RLt(sc.cropY, Zero)

\* a portrait source in a landscape canvas: cropped above and below
C37_Witness ==
    /\ output.fn = "getVideoScale"
    /\ input.video = Video(720, 1280)
    /\ input.canvas = [width |-> 1280, height |-> 720]
    /\ output.scale.cropWidth = One
    /\ output.scale.cropHeight = Rat(81, 256)
    /\ output.scale.cropY = Rat(175, 512)

----------------------------------------------------------------------------
(* The main loop under pause, resume and destroy (SpecLifecycle)           *)

\* the runs of the main loop that are requested or under way
Chains == lifecycle.requested \cup lifecycle.awaiting

\* C38: however pause(), resume(), destroy() and the runs of loop
\* interleave, at most one chain of the main loop is requested or running,
\* no run processes a frame while isRunning is false, and after destroy()
\* no resume() starts the loop again.
C38_OneLoopChain ==
    /\ [](Cardinality(Chains) <= 1)
    /\ [](lifecycle.awaiting # {} => lifecycle.isRunning)
    /\ [][~lifecycle.isInitialized
            => (~lifecycle'.isRunning /\ Chains' = {})]_vars

\* resume() after pause() has started the loop again, alone
C38_Witness ==
    /\ input.fn = "resume"
    /\ lifecycle.isRunning
    /\ lifecycle.lastId >= 3
    /\ Chains = {lifecycle.lastId}
    /\ animationId = lifecycle.lastId

====
